---- MODULE Spec2Model ----
(***************************************************************************)
(* Verification model of the smooth library (pettni/lie):                  *)
(*   - solve_ls and lmpar    (include/smooth/optim/lm.hpp, lines 9-196)     *)
(*   - cspline_eval_diff and cspline_eval (same file, lines 346-483)        *)
(*                                                                         *)
(* Arithmetic.  The least-squares code works on `double`.  It is modelled  *)
(* by a binary floating-point format with an FBits-bit significand,        *)
(* round-to-nearest-even and an unbounded exponent: a value is the pair    *)
(* <<m, e>> standing for m * 2^e, normalised so that 2^(FBits-1) <= |m|   *)
(* < 2^FBits (or m = 0, e = 0).  Every product of two significands fits the  *)
(* 32-bit integers of TLC.  The spline code is generic in its scalar type  *)
(* and is modelled over exact fractions (pairs <<n, m>>, m > 0, in lowest  *)
(* terms).                                                                 *)
(***************************************************************************)
EXTENDS Integers, Sequences, FiniteSets, TLC

----------------------------------------------------------------------------
(* Integer helpers *)

Abs(n) == IF n < 0 THEN -n ELSE n

Sgn(n) == IF n < 0 THEN -1 ELSE IF n > 0 THEN 1 ELSE 0

Pow2(k) == IF k <= 0 THEN 1 ELSE 2 ^ k

\* number of bits of n, a 32-bit integer
BitLen(n) == IF n <= 0 THEN 0 ELSE CHOOSE k \in 1..31 : Pow2(k - 1) <= n /\ (k = 31 \/ n < Pow2(k))

\* floor(sqrt(n)) of a 32-bit n >= 0, found high byte first
ISqrt(n) ==
  LET h == CHOOSE k \in 0..181 : (256 * k) * (256 * k) <= n
                                 /\ (k = 181 \/ (256 * (k + 1)) * (256 * (k + 1)) > n)
  IN CHOOSE s \in (256 * h)..(256 * h + 255) :
        s <= 46340 /\ s * s <= n /\ (s = 46340 \/ (s + 1) * (s + 1) > n)

----------------------------------------------------------------------------
(* double, modelled with an FBits-bit significand *)

FBits == 15

FZero == <<0, 0>>

\* round the integer m * 2^e to FBits bits, ties to even
FNorm(m, e) ==
  IF m = 0 THEN FZero
  ELSE LET a  == Abs(m)
           s  == Sgn(m)
           nb == BitLen(a)
       IN IF nb > FBits
          THEN LET k    == nb - FBits
                   q    == a \div Pow2(k)
                   rem  == a % Pow2(k)
                   half == Pow2(k - 1)
                   up   == rem > half \/ (rem = half /\ q % 2 = 1)
                   q2   == IF up THEN q + 1 ELSE q
               IN IF q2 = Pow2(FBits)
                  THEN <<s * Pow2(FBits - 1), e + k + 1>>
                  ELSE <<s * q2, e + k>>
          ELSE <<s * a * Pow2(FBits - nb), e - (FBits - nb)>>

\* the double nearest to the integer n
FInt(n) == FNorm(n, 0)

FNeg(x) == <<-x[1], x[2]>>

FAbs(x) == <<Abs(x[1]), x[2]>>

FAdd(x, y) ==
  IF x[1] = 0 THEN y
  ELSE IF y[1] = 0 THEN x
  ELSE LET hi == IF x[2] >= y[2] THEN x ELSE y
           lo == IF x[2] >= y[2] THEN y ELSE x
           df == hi[2] - lo[2]
       IN IF df > FBits THEN hi
          ELSE FNorm(hi[1] * Pow2(df) + lo[1], lo[2])

FSub(x, y) == FAdd(x, FNeg(y))

FMul(x, y) == FNorm(x[1] * y[1], x[2] + y[2])

\* x / y; a zero divisor is an evaluation error (the checked inputs never divide by zero)
FDiv(x, y) ==
  LET n   == Abs(x[1]) * Pow2(FBits)
      dd  == Abs(y[1])
      q   == n \div dd
      rem == n % dd
      s   == Sgn(x[1]) * Sgn(y[1])
  IN IF q = 0 /\ rem = 0 THEN FZero
     ELSE IF q >= Pow2(FBits)
          THEN \* FBits+1 bits: the remainder is a sticky bit below the last one
               FNorm(s * (2 * q + (IF rem > 0 THEN 1 ELSE 0)), x[2] - y[2] - FBits - 1)
          ELSE LET up == 2 * rem > dd \/ (2 * rem = dd /\ q % 2 = 1)
               IN FNorm(s * (IF up THEN q + 1 ELSE q), x[2] - y[2] - FBits)

\* sqrt(x) for x >= 0
FSqrt(x) ==
  IF x[1] <= 0 THEN FZero
  ELSE LET odd == (x[2] - FBits) % 2 # 0
           n   == IF odd THEN x[1] * Pow2(FBits + 1) ELSE x[1] * Pow2(FBits)
           ex  == IF odd THEN x[2] - FBits - 1 ELSE x[2] - FBits
           s   == ISqrt(n)
           st  == IF s * s < n THEN 1 ELSE 0
       IN IF s < Pow2(FBits)
          THEN FNorm(IF n - s * s > s THEN s + 1 ELSE s, ex \div 2)
          ELSE FNorm(2 * s + st, (ex \div 2) - 1)

FCmp(x, y) == Sgn(FSub(x, y)[1])

FLt(x, y) == FCmp(x, y) < 0

FLe(x, y) == FCmp(x, y) <= 0

FMax(x, y) == IF FLt(x, y) THEN y ELSE x

\* the double nearest to n / d
FRat(n, d) == FDiv(FInt(n), FInt(d))

FOne == FInt(1)

\* machine epsilon of the modelled double: 2^(1 - FBits)
FEps == <<Pow2(FBits - 1), 2 - 2 * FBits>>

----------------------------------------------------------------------------
(* Eigen vectors and matrices of size N (the template parameter, M = N) *)

N == 2

Idx == 1..N

\* the vector (f[1], ..., f[n]) of a function f, computed entry by entry
RECURSIVE Tup(_, _)
Tup(f, n) == LET h == f IN IF n = 0 THEN <<>> ELSE Append(Tup(h, n - 1), h[n])

V(f) == Tup(f, N)

\* Op(v), with v computed first: the program computes its locals in order
After(val, Op(_)) == CHOOSE res \in {Op(w) : w \in {val}} : TRUE

RECURSIVE FSum(_, _, _)
FSum(f, lo, hi) == IF lo > hi THEN FZero ELSE FAdd(FSum(f, lo, hi - 1), f[hi])

Dot(x, y) == FSum(V([i \in Idx |-> FMul(x[i], y[i])]), 1, N)

squaredNorm(x) == Dot(x, x)

stableNorm(x) == FSqrt(squaredNorm(x))

cwiseProduct(x, y) == V([i \in Idx |-> FMul(x[i], y[i])])

VScale(c, x) == V([i \in Idx |-> FMul(c, x[i])])

VNeg(x) == V([i \in Idx |-> FNeg(x[i])])

VZero == V([i \in Idx |-> FZero])

MZero == V([i \in Idx |-> VZero])

\* Eigen::internal::make_householder on the column part x[k..N]:
\* H = I - tau v v', v = (1, essential), H x = (beta, 0, ..., 0)
makeHouseholder(x, k) ==
  LET c0     == x[k]
      tailSq == FSum(V([i \in Idx |-> IF i > k THEN FMul(x[i], x[i]) ELSE FZero]), 1, N)
  IN IF tailSq[1] = 0
     THEN [tau |-> FZero, beta |-> c0, ess |-> VZero]
     ELSE LET b0   == FSqrt(FAdd(FMul(c0, c0), tailSq))
              beta == IF c0[1] >= 0 THEN FNeg(b0) ELSE b0
          IN [tau  |-> FDiv(FSub(beta, c0), beta),
              beta |-> beta,
              ess  |-> V([i \in Idx |-> IF i > k THEN FDiv(x[i], FSub(c0, beta)) ELSE FZero])]

\* applyHouseholderOnTheLeft to the part x[k..N] of a column
applyHouseholder(h, x, k) ==
  LET tmp == FAdd(x[k], FSum(V([i \in Idx |-> IF i > k THEN FMul(h.ess[i], x[i]) ELSE FZero]), 1, N))
  IN IF h.tau[1] = 0 THEN x
     ELSE V([i \in Idx |->
            IF i < k THEN x[i]
            ELSE IF i = k THEN FSub(x[k], FMul(h.tau, tmp))
            ELSE FSub(x[i], FMul(FMul(h.tau, h.ess[i]), tmp))])

\* column j of a row-major matrix, and back
Col(A, j) == V([i \in Idx |-> A[i][j]])

FromCols(C) == V([i \in Idx |-> V([j \in Idx |-> C[j][i]])])

\* norm of the part below and including row k of column j
TailNorm(A, j, k) ==
  FSqrt(FSum(V([i \in Idx |-> IF i >= k THEN FMul(A[i][j], A[i][j]) ELSE FZero]), 1, N))

\* index of the first largest remaining column (maxCoeff)
RECURSIVE BiggestCol(_, _, _, _)
BiggestCol(A, k, j, best) ==
  IF j > N THEN best
  ELSE After(IF FLt(TailNorm(A, best, k), TailNorm(A, j, k)) THEN j ELSE best,
             LAMBDA nb : BiggestCol(A, k, j + 1, nb))

\* Eigen::ColPivHouseholderQR<Matrix<N,N>>::computeInPlace, steps k..N
\* step k: column swap, Householder reflection of column k, update of the
\* columns to its right
QRStep(st, k) ==
  LET Reflect(big) ==
        LET bigSq == FMul(TailNorm(st.qr, big, k), TailNorm(st.qr, big, k))
            zero  == FLt(bigSq, FMul(st.th, FInt(N - k + 1)))
            cols  == V([j \in Idx |-> IF j = k THEN Col(st.qr, big)
                                     ELSE IF j = big THEN Col(st.qr, k)
                                     ELSE Col(st.qr, j)])
            perm  == V([j \in Idx |-> IF j = k THEN st.perm[big]
                                     ELSE IF j = big THEN st.perm[k]
                                     ELSE st.perm[j]])
            Update(h) ==
              LET ncols == V([j \in Idx |->
                             IF j < k THEN cols[j]
                             ELSE IF j = k
                                  THEN V([i \in Idx |-> IF i < k THEN cols[k][i]
                                                      ELSE IF i = k THEN h.beta ELSE FZero])
                                  ELSE applyHouseholder(h, cols[j], k)])
              IN [qr       |-> FromCols(ncols),
                  perm     |-> perm,
                  tau      |-> [st.tau EXCEPT ![k] = h.tau],
                  ess      |-> [st.ess EXCEPT ![k] = h.ess],
                  th       |-> st.th,
                  nzp      |-> IF st.nzp = N /\ zero THEN k - 1 ELSE st.nzp,
                  maxpivot |-> FMax(st.maxpivot, FAbs(h.beta))]
        IN After(makeHouseholder(cols[k], k), Update)
  IN After(BiggestCol(st.qr, k, k, k), Reflect)

\* Eigen::ColPivHouseholderQR<Matrix<N,N>>::computeInPlace, steps k..N
RECURSIVE QRSteps(_, _)
QRSteps(st, k) ==
  IF k > N THEN st
  ELSE After(QRStep(st, k), LAMBDA nx : QRSteps(nx, k + 1))

\* J_qr(J): J P = Q R, column perm[k] of J is column k of J P
ColPivHouseholderQR(J) ==
  LET Start(maxn) ==
        LET me == FMul(maxn, FEps)
        IN [qr |-> J, perm |-> V([j \in Idx |-> j]),
            tau |-> VZero, ess |-> MZero,
            th |-> FDiv(FMul(me, me), FInt(N)),
            nzp |-> N, maxpivot |-> FZero]
  IN After(After(TailNorm(J, BiggestCol(J, 1, 1, 1), 1), Start),
           LAMBDA st : QRSteps(st, 1))

\* J_qr.matrixR(): the upper triangle
matrixR(qrd) == V([i \in Idx |-> V([j \in Idx |-> IF j >= i THEN qrd.qr[i][j] ELSE FZero])])

\* J_qr.rank(): pivots above threshold() * maxpivot, threshold() = epsilon * N
RECURSIVE CountPivots(_, _)
CountPivots(qrd, i) ==
  IF i > qrd.nzp THEN 0
  ELSE (IF FLt(FMul(qrd.maxpivot, FMul(FEps, FInt(N))), FAbs(qrd.qr[i][i])) THEN 1 ELSE 0)
       + CountPivots(qrd, i + 1)

QRrank(qrd) == CountPivots(qrd, 1)

\* J_qr.matrixQ().transpose() * v
RECURSIVE ApplyQt(_, _, _)
ApplyQt(qrd, v, k) ==
  IF k > N THEN v
  ELSE After(applyHouseholder([tau |-> qrd.tau[k], ess |-> qrd.ess[k]], v, k),
             LAMBDA nv : ApplyQt(qrd, nv, k + 1))

QtTimes(qrd, v) == ApplyQt(qrd, v, 1)

\* P' * v and P * v for the column permutation P
PtTimes(qrd, v) == V([k \in Idx |-> v[qrd.perm[k]]])

PTimes(qrd, v) == V([i \in Idx |-> v[CHOOSE k \in Idx : qrd.perm[k] = i]])

\* back substitution: U.topLeftCorner(n, n).triangularView<Upper>().solve(c.head(n));
\* the components beyond n are zero
RECURSIVE BackSubst(_, _, _, _, _)
BackSubst(U, c, n, i, y) ==
  IF i < 1 THEN y
  ELSE LET acc == FSum(V([j \in Idx |-> IF j > i /\ j <= n THEN FMul(U[i][j], y[j]) ELSE FZero]), 1, N)
       IN After([y EXCEPT ![i] = FDiv(FSub(c[i], acc), U[i][i])],
                LAMBDA ny : BackSubst(U, c, n, i - 1, ny))

solveUpper(U, c, n) == BackSubst(U, c, n, n, VZero)

\* forward substitution: U.triangularView<Upper>().transpose().solveInPlace(y)
RECURSIVE FwdSubst(_, _, _, _)
FwdSubst(U, c, i, y) ==
  IF i > N THEN y
  ELSE LET acc == FSum(V([j \in Idx |-> IF j < i THEN FMul(U[j][i], y[j]) ELSE FZero]), 1, N)
       IN After([y EXCEPT ![i] = FDiv(FSub(c[i], acc), U[i][i])],
                LAMBDA ny : FwdSubst(U, c, i + 1, ny))

solveUpperTransposed(U, c) == FwdSubst(U, c, 1, VZero)

\* J_qr.solve(b): the basic solution on the nonzeroPivots() leading columns,
\* the other components zero
QRsolve(qrd, b) ==
  After(QtTimes(qrd, b),
        LAMBDA c : PTimes(qrd, solveUpper(matrixR(qrd), c, qrd.nzp)))

----------------------------------------------------------------------------
(* solve_ls *)

\* Eigen::NumTraits<double>::dummy_precision() = 1e-12
DummyPrecision == FMul(FRat(1, 1000000), FRat(1, 1000000))

\* Eigen::JacobiRotation<double>::makeGivens(p, q)
makeGivens(p, q) ==
  IF q[1] = 0 THEN [c |-> IF p[1] < 0 THEN FNeg(FOne) ELSE FOne, s |-> FZero]
  ELSE IF p[1] = 0 THEN [c |-> FZero, s |-> IF q[1] < 0 THEN FOne ELSE FNeg(FOne)]
  ELSE IF FLt(FAbs(q), FAbs(p))
       THEN LET t  == FDiv(q, p)
                u0 == FSqrt(FAdd(FOne, FMul(t, t)))
                u1 == IF p[1] < 0 THEN FNeg(u0) ELSE u0
                c  == FDiv(FOne, u1)
            IN [c |-> c, s |-> FMul(FNeg(t), c)]
       ELSE LET t  == FDiv(p, q)
                u0 == FSqrt(FAdd(FOne, FMul(t, t)))
                u1 == IF q[1] < 0 THEN FNeg(u0) ELSE u0
                sn == FDiv(FNeg(FOne), u1)
            IN [c |-> FMul(FNeg(t), sn), s |-> sn]

\* no rotation: the rows of diag(d) are left out of the factor
GivensSkip(st, col, row) == st

\* lines 57-74: one rotation, eliminating B(row, col) against A(col, col)
GivensStep(st, col, row) ==
  LET Rotate(G) ==
        LET Arow == V([i \in Idx |->
                      IF i < col THEN st.A[col][i]
                      ELSE FSub(FMul(G.c, st.A[col][i]), FMul(G.s, st.B[row][i]))])
            Brow == V([i \in Idx |->
                      IF i <= col THEN st.B[row][i]
                      ELSE FAdd(FMul(G.s, st.A[col][i]), FMul(G.c, st.B[row][i]))])
        IN [A |-> [st.A EXCEPT ![col] = Arow],
            B |-> [st.B EXCEPT ![row] = Brow],
            a |-> [st.a EXCEPT ![col] = FSub(FMul(G.c, st.a[col]), FMul(G.s, st.b[row]))],
            b |-> [st.b EXCEPT ![row] = FAdd(FMul(G.s, st.a[col]), FMul(G.c, st.b[row]))]]
  IN After(makeGivens(st.A[col][col], st.B[row][col]), Rotate)

\* lines 54-76: for each column, for each row up to the diagonal
RECURSIVE GivensLoop(_, _, _)
GivensLoop(st, col, row) ==
  IF col > N THEN st
  ELSE IF row > col THEN GivensLoop(st, col + 1, 1)
  ELSE After(GivensStep(st, col, row), LAMBDA nx : GivensLoop(nx, col, row + 1))

\* rank 0: nothing is solved
lsRankNone(A, i) == 0

\* lines 84-87: the number of leading diagonal entries >= dummy_precision
RECURSIVE lsRank(_, _)
lsRank(A, i) ==
  IF i <= N /\ FLe(DummyPrecision, A[i][i]) THEN lsRank(A, i + 1) ELSE i - 1

\* solve_ls(J_qr, d, r, Rt): x is the returned vector; A, a, rank, sol are its locals
\* after the elimination; Rt is the output factor (upper triangle written)
solve_ls(J_qr, d, r, Rt) ==
  LET st0  == [A |-> matrixR(J_qr),
               B |-> V([i \in Idx |-> V([j \in Idx |-> IF i = j THEN PtTimes(J_qr, d)[i] ELSE FZero])]),
               a |-> QtTimes(J_qr, r),
               b |-> VZero]
      Finish(st) ==
        LET rank == lsRank(st.A, 1)
            sol  == solveUpper(st.A, st.a, rank)
        IN [x    |-> VNeg(PTimes(J_qr, sol)),
            Rt   |-> V([i \in Idx |-> V([j \in Idx |-> IF j >= i THEN st.A[i][j] ELSE Rt[i][j]])]),
            A    |-> st.A,
            a    |-> st.a,
            rank |-> rank,
            sol  |-> sol]
  IN After(GivensLoop(st0, 1, 1), Finish)

----------------------------------------------------------------------------
(* State *)

VARIABLES
  pc,        \* position of the running call
  J, d, r,   \* arguments of solve_ls / lmpar (J is N x N, d and r have size N)
  Delta,     \* trust-region radius argument of lmpar
  J_qr,      \* lmpar/optimize local: the pivoted QR factorization of J
  ls,        \* the result and the locals of the last call of solve_ls
  alpha, l, u, phi,  \* lmpar locals
  z_iter, Rt_iter,   \* lmpar locals
  iter,      \* lmpar loop counter i
  x,         \* lmpar output x
  lambda     \* lmpar return value

lmVars == <<pc, J, d, r, Delta, J_qr, ls, alpha, l, u, phi, z_iter, Rt_iter, iter, x, lambda>>

VARIABLES
  spc,       \* position of the running spline call
  grp,       \* the group type G of the call: "Rn" (Eigen vectors) or "H"
  K,         \* spline order K
  gs,        \* control points g_0 .. g_K (gs[i + 1] is g_i)
  Bcum,      \* cumulative coefficient matrix (Bcum[k + 1][i + 1] is Bcum(k, i))
  uParam,    \* argument u
  opt,       \* which of the optional outputs vel, acc, der the caller passed
  diff_pts,  \* cspline_eval local: the differences handed to cspline_eval_diff
  jIdx,      \* loop variable j of the running loop of cspline_eval_diff
  g,         \* cspline_eval_diff local g
  vel, acc, der,   \* the output buffers
  z2inv,     \* cspline_eval_diff local z2inv
  ret        \* value returned by cspline_eval

splVars == <<spc, grp, K, gs, Bcum, uParam, opt, diff_pts, jIdx, g, vel, acc, der, z2inv, ret>>

VARIABLES
  man_pc,    \* position of the running rplus / rminus round trip
  man_M,     \* the manifold type M of the round trip
  man_g,     \* the point g
  man_a,     \* the tangent a
  man_sum,   \* rplus(g, a)
  man_diff   \* rminus(rplus(g, a), g)

manVars == <<man_pc, man_M, man_g, man_a, man_sum, man_diff>>

\* no round trip is running
manIdle ==
  /\ man_pc = "idle" /\ man_M = "Rn" /\ man_g = <<>> /\ man_a = <<>>
  /\ man_sum = <<>> /\ man_diff = <<>>

VARIABLES
  op_pc,      \* position in optimize
  op_f,       \* the residual function f
  op_g,       \* g, the optimization variable
  op_J,       \* J = f.df(g)
  op_r,       \* r = f(g)
  op_Delta,   \* Delta, the trust region
  op_diag,    \* diag, the scaling parameters
  op_i,       \* the loop counter i
  op_lambda,  \* lambda of the last iteration
  op_a,       \* the step a of the last iteration
  op_rho      \* rho of the last iteration

optVars == <<op_pc, op_f, op_g, op_J, op_r, op_Delta, op_diag, op_i, op_lambda, op_a, op_rho>>

\* optimize is not running
optIdle ==
  /\ op_pc = "idle" /\ op_f = <<>> /\ op_g = <<>> /\ op_J = <<>> /\ op_r = <<>>
  /\ op_Delta = <<>> /\ op_diag = <<>> /\ op_i = 0 /\ op_lambda = <<>> /\ op_a = <<>>
  /\ op_rho = <<>>

VARIABLES
  rep_pc,      \* position in reparameterize_spline
  rep_spline,  \* the spline: its duration and its velocity and acceleration on the grid
  rep_par,     \* vel_min, vel_max, acc_min, acc_max, start_vel, end_vel and N
  rep_ds,      \* ds
  rep_v2max,   \* v2max; v2max(i) is rep_v2max[i + 1]
  rep_i,       \* the loop counter i
  rep_v2m,     \* v2m, the current squared velocity
  rep_ret      \* ret, as the list of the segments appended to it

repVars == <<rep_pc, rep_spline, rep_par, rep_ds, rep_v2max, rep_i, rep_v2m, rep_ret>>

\* reparameterize_spline is not running
repIdle ==
  /\ rep_pc = "idle" /\ rep_spline = <<>> /\ rep_par = <<>> /\ rep_ds = <<>>
  /\ rep_v2max = <<>> /\ rep_i = 0 /\ rep_v2m = <<>> /\ rep_ret = <<>>

VARIABLES
  crv_pc,    \* "use": curves are built and used; "thrown", "cropped", "evaluated": after such a call
  crv_G,     \* the group G of Curve<G>
  crv_x,     \* the Curve x (x1)
  crv_y,     \* the Curve y (x2)
  crv_call,  \* the last call and its arguments
  crv_ret    \* what the last call returned

crvVars == <<crv_pc, crv_G, crv_x, crv_y, crv_call, crv_ret>>

\* no Curve exists
crvIdle ==
  /\ crv_pc = "idle" /\ crv_G = "Rn" /\ crv_x = <<>> /\ crv_y = <<>>
  /\ crv_call = <<>> /\ crv_ret = <<>>

VARIABLES
  fit_pc,   \* position in fit_spline
  fit_G,    \* the group G of the values
  fit_K,    \* the degree K of the spline specification
  fit_ts,   \* ts
  fit_gs,   \* gs
  fit_V,    \* V, the columns of the coefficients of the one-dimensional fits
  fit_i,    \* the loop counter i
  fit_ret   \* ret, as the list of what was appended to it

fitVars == <<fit_pc, fit_G, fit_K, fit_ts, fit_gs, fit_V, fit_i, fit_ret>>

\* fit_spline is not running
fitIdle ==
  /\ fit_pc = "idle" /\ fit_G = "Rn" /\ fit_K = 0 /\ fit_ts = <<>> /\ fit_gs = <<>>
  /\ fit_V = <<>> /\ fit_i = 0 /\ fit_ret = <<>>

VARIABLES
  bs_pc,   \* position in binary_interval_search
  bs_r,   \* r, the sorted range
  bs_t,   \* t
  bs_left,   \* left, as an index from 0
  bs_rght,   \* rght, as an index from 0; end(r) is the length
  bs_pivot,   \* pivot; -1 before it is assigned
  bs_ret,   \* the returned iterator; -1 when it is an unassigned pivot
  bs_read   \* the positions that were dereferenced

bsVars == <<bs_pc, bs_r, bs_t, bs_left, bs_rght, bs_pivot, bs_ret, bs_read>>

\* binary_interval_search is not running
bsIdle ==
  /\ bs_pc = "idle"
  /\ bs_r = <<>>
  /\ bs_t = FZero
  /\ bs_left = 0
  /\ bs_rght = 0
  /\ bs_pivot = -1
  /\ bs_ret = -1
  /\ bs_read = {}

VARIABLES
  bun_pc,   \* position of the Bundle call
  bun_Gs,   \* the member types _Gs of the Bundle
  bun_s,   \* s_, the storage of *this
  bun_arg,   \* the storage of the argument r, or the tangent a
  bun_op,   \* the member function called
  bun_ret   \* ret

bunVars == <<bun_pc, bun_Gs, bun_s, bun_arg, bun_op, bun_ret>>

\* no Bundle is in use
bunIdle ==
  /\ bun_pc = "idle"
  /\ bun_Gs = <<>>
  /\ bun_s = <<>>
  /\ bun_arg = <<>>
  /\ bun_op = ""
  /\ bun_ret = <<>>

VARIABLES
  tr_pc,   \* position in StaticMatrix::transpose
  tr_Rows,   \* _Rows
  tr_Cols,   \* _Cols
  tr_m,   \* *this, as the tuple of its rows
  tr_ret,   \* ret, as the tuple of its rows
  tr_i,   \* the loop counter i
  tr_j,   \* the loop counter j
  tr_out   \* the positions <<row, column>> written outside the arrays of ret

trVars == <<tr_pc, tr_Rows, tr_Cols, tr_m, tr_ret, tr_i, tr_j, tr_out>>

\* no StaticMatrix::transpose is running
trIdle ==
  /\ tr_pc = "idle"
  /\ tr_Rows = 0
  /\ tr_Cols = 0
  /\ tr_m = <<>>
  /\ tr_ret = <<>>
  /\ tr_i = 0
  /\ tr_j = 0
  /\ tr_out = {}

VARIABLES
  f1_pc,   \* position in fit_spline_1d
  f1_ss,   \* the spline specification ss
  f1_N,   \* N, the number of intervals
  f1_M,   \* M, the constraint-row counter
  f1_A,   \* the positions <<row, column>> inserted into A
  f1_b,   \* the indices of b that were assigned
  f1_i   \* the counter of the running loop

f1Vars == <<f1_pc, f1_ss, f1_N, f1_M, f1_A, f1_b, f1_i>>

\* fit_spline_1d is not running
f1Idle ==
  /\ f1_pc = "idle"
  /\ f1_ss = <<>>
  /\ f1_N = 0
  /\ f1_M = 0
  /\ f1_A = {}
  /\ f1_b = {}
  /\ f1_i = 0

VARIABLES
  rc_pc,   \* position in reparameterize_curve
  rc_in,   \* the arguments: curve, vel_min, vel_max, acc_min, acc_max, dt, min_v, alpha, max_accel
  rc_t,   \* t
  rc_x,   \* x = (s, ds/dt)
  rc_x_lookahead,   \* x_lookahead
  rc_h_val,   \* h_val
  rc_k,   \* the number of look-ahead steps taken in this iteration of the main loop
  rc_svec,   \* svec
  rc_tvec   \* tvec

rcVars == <<rc_pc, rc_in, rc_t, rc_x, rc_x_lookahead, rc_h_val, rc_k, rc_svec, rc_tvec>>

\* reparameterize_curve is not running
rcIdle ==
  /\ rc_pc = "idle"
  /\ rc_in = <<>>
  /\ rc_t = <<0, 0>>
  /\ rc_x = <<>>
  /\ rc_x_lookahead = <<>>
  /\ rc_h_val = <<>>
  /\ rc_k = 0
  /\ rc_svec = <<>>
  /\ rc_tvec = <<>>

\* the variables of the other calls, which solve_ls, lmpar and cspline_eval leave alone
extVars == <<manVars, optVars, repVars, crvVars, fitVars, bsVars, bunVars, trVars, f1Vars, rcVars>>

extIdle == manIdle /\ optIdle /\ repIdle /\ crvIdle /\ fitIdle /\ bsIdle /\ bunIdle /\ trIdle /\ f1Idle /\ rcIdle

\* what a round trip, optimize, reparameterize_spline and the Curve methods leave alone
manRest == <<lmVars, splVars, optVars, repVars, crvVars, fitVars, bsVars, bunVars, trVars, f1Vars, rcVars>>

optRest == <<lmVars, splVars, manVars, repVars, crvVars, fitVars, bsVars, bunVars, trVars, f1Vars, rcVars>>

repRest == <<lmVars, splVars, manVars, optVars, crvVars, fitVars, bsVars, bunVars, trVars, f1Vars, rcVars>>

crvRest == <<lmVars, splVars, manVars, optVars, repVars, fitVars, bsVars, bunVars, trVars, f1Vars, rcVars>>

fitRest == <<lmVars, splVars, manVars, optVars, repVars, crvVars, bsVars, bunVars, trVars, f1Vars, rcVars>>

bsRest == <<lmVars, splVars, manVars, optVars, repVars, crvVars, fitVars, bunVars, trVars, f1Vars, rcVars>>

bunRest == <<lmVars, splVars, manVars, optVars, repVars, crvVars, fitVars, bsVars, trVars, f1Vars, rcVars>>

trRest == <<lmVars, splVars, manVars, optVars, repVars, crvVars, fitVars, bsVars, bunVars, f1Vars, rcVars>>

f1Rest == <<lmVars, splVars, manVars, optVars, repVars, crvVars, fitVars, bsVars, bunVars, trVars, rcVars>>

rcRest == <<lmVars, splVars, manVars, optVars, repVars, crvVars, fitVars, bsVars, bunVars, trVars, f1Vars>>

vars == <<lmVars, splVars, extVars>>

----------------------------------------------------------------------------
(* lmpar *)

\* lmpar loop bound (line 160)
MaxIter == 20

\* the number of iterations of optimize
MaxOptIter == 10

\* 0.1 and 0.001 as written in the source
Tenth == FRat(1, 10)

Thousandth == FRat(1, 1000)

\* lines 147-153 and 176-179: q = d .* z, its norm, and dphi from the
\* triangular factor R
dphiOf(qrd, R, dd, z) ==
  LET q == cwiseProduct(dd, z)
      WithNorm(q_norm) ==
        LET y0 == PtTimes(qrd, V([i \in Idx |-> FDiv(FMul(dd[i], q[i]), q_norm)]))
        IN After(solveUpperTransposed(R, y0),
                 LAMBDA y : FMul(FNeg(q_norm), squaredNorm(y)))
  IN After(stableNorm(q), WithNorm)

\* line 158: ((J * d.cwiseInverse().asDiagonal()).transpose() * r).stableNorm() / Delta
upperBound(JJ, dd, rr, Del) ==
  LET dinv == V([j \in Idx |-> FDiv(FOne, dd[j])])
      v    == V([j \in Idx |-> FSum(V([i \in Idx |-> FMul(FMul(JJ[i][j], dinv[j]), rr[i])]), 1, N)])
  IN After(v, LAMBDA w : FDiv(stableNorm(w), Del))

\* a replacement above the bracket
clampAbove(al, lo, up) ==
  IF ~(FLt(lo, al) /\ FLt(al, up)) THEN FAdd(up, up) ELSE al

\* lines 162-164: ensure alpha stays within bounds
clampAlpha(al, lo, up) ==
  IF ~(FLt(lo, al) /\ FLt(al, up))
  THEN FMax(FMul(Thousandth, up), FSqrt(FMul(lo, up)))
  ELSE al

\* line 188: the Newton update of alpha
newtonAlpha(al, ph, dph, Del) ==
  FSub(al, FMul(FDiv(FAdd(ph, Del), Del), FDiv(ph, dph)))

\* lines 125-158: factorization, phi(0), early return or the bounds l and u
lmparStart ==
  /\ pc = "lmpar"
  /\ J_qr' = ColPivHouseholderQR(J)
  /\ z_iter' = QRsolve(J_qr', VNeg(r))
  /\ Rt_iter' = matrixR(J_qr')
  /\ alpha' = FZero
  /\ phi' = FSub(stableNorm(cwiseProduct(d, z_iter')), Delta)
  /\ iter' = 0
  /\ IF FLe(phi', FMul(Tenth, Delta))
     THEN /\ x' = z_iter'
          /\ lambda' = FZero
          /\ pc' = "return143"
          /\ UNCHANGED <<l, u>>
     ELSE /\ l' = IF QRrank(J_qr') = N
                  THEN After(dphiOf(J_qr', Rt_iter', d, z_iter'),
                             LAMBDA dphi : FMax(FZero, FDiv(FNeg(phi'), dphi)))
                  ELSE FZero
          /\ u' = upperBound(J, d, r, Delta)
          /\ pc' = "loop"
          /\ UNCHANGED <<x, lambda>>
  /\ UNCHANGED <<J, d, r, Delta, ls>>
  /\ UNCHANGED <<splVars, extVars>>

\* lines 160-170: loop test, clamp of alpha, solve_ls, phi
lmparSolve ==
  /\ pc = "loop"
  /\ iter # MaxIter
  /\ alpha' = clampAlpha(alpha, l, u)
  /\ ls' = solve_ls(J_qr, VScale(FSqrt(alpha'), d), r, Rt_iter)
  /\ z_iter' = ls'.x
  /\ Rt_iter' = ls'.Rt
  /\ phi' = FSub(stableNorm(cwiseProduct(d, z_iter')), Delta)
  /\ pc' = "solved"
  /\ UNCHANGED <<J, d, r, Delta, J_qr, l, u, iter, x, lambda>>
  /\ UNCHANGED <<splVars, extVars>>

\* lines 172-174: condition fulfilled, break
lmparBreak ==
  /\ pc = "solved"
  /\ FLe(FAbs(phi), FMul(Tenth, Delta))
  /\ pc' = "exit"
  /\ UNCHANGED <<J, d, r, Delta, J_qr, ls, alpha, l, u, phi, z_iter, Rt_iter, iter, x, lambda>>
  /\ UNCHANGED <<splVars, extVars>>

\* lines 176-188 and ++i: derivative of phi, update of the bounds and of alpha
lmparUpdate ==
  /\ pc = "solved"
  /\ ~FLe(FAbs(phi), FMul(Tenth, Delta))
  /\ l' = After(dphiOf(J_qr, Rt_iter, d, z_iter),
                LAMBDA dphi : FMax(l, FSub(alpha, FDiv(phi, dphi))))
  /\ u' = IF phi[1] < 0 THEN alpha ELSE u
  /\ alpha' = After(dphiOf(J_qr, Rt_iter, d, z_iter),
                    LAMBDA dphi : newtonAlpha(alpha, phi, dphi, Delta))
  /\ iter' = iter + 1
  /\ pc' = "loop"
  /\ UNCHANGED <<J, d, r, Delta, J_qr, ls, phi, z_iter, Rt_iter, x, lambda>>
  /\ UNCHANGED <<splVars, extVars>>

\* line 160: the loop ends after MaxIter iterations
lmparCap ==
  /\ pc = "loop"
  /\ iter = MaxIter
  /\ pc' = "exit"
  /\ UNCHANGED <<J, d, r, Delta, J_qr, ls, alpha, l, u, phi, z_iter, Rt_iter, iter, x, lambda>>
  /\ UNCHANGED <<splVars, extVars>>

\* lines 191-195: write x, return alpha
lmparReturn ==
  /\ pc = "exit"
  /\ x' = z_iter
  /\ lambda' = alpha
  /\ pc' = "return195"
  /\ UNCHANGED <<J, d, r, Delta, J_qr, ls, alpha, l, u, phi, z_iter, Rt_iter, iter>>
  /\ UNCHANGED <<splVars, extVars>>

----------------------------------------------------------------------------
(* Direct call of solve_ls, as optimize makes it (lines 250-251) *)

solveLsCall ==
  /\ pc = "solve_ls"
  /\ J_qr' = ColPivHouseholderQR(J)
  /\ ls' = solve_ls(J_qr', d, r, MZero)
  /\ pc' = "solve_ls_done"
  /\ UNCHANGED <<J, d, r, Delta, alpha, l, u, phi, z_iter, Rt_iter, iter, x, lambda>>
  /\ UNCHANGED <<splVars, extVars>>

----------------------------------------------------------------------------
(* Inputs *)

\* J is upper triangular with integer entries in 0..MaxJ; lmpar also takes it
\* scaled by 2^MaxExp
MaxJ == 1

MaxExp == 70

\* entries of d are integers in 0..MaxD (lmpar: 1..MaxD)
MaxD == 1

\* entries of r are integers in 0..MaxR
MaxR == 1

\* Delta is 2 or (8 - k) / 8 for k in 1..MaxDeltaSteps (scaled by 2^-MaxExp with J)
MaxDeltaSteps == 2

DeltaInputs == {FInt(2)} \cup {FRat(8 - k, 8) : k \in 1..MaxDeltaSteps}

\* A singular triangular matrix has a zero row or a zero column, and the zero
\* pivot of its factorization is exact at every precision.
JInputs == {M \in [Idx -> [Idx -> 0..MaxJ]] : \A i, j \in Idx : i > j => M[i][j] = 0}

\* f * 2^ex
Scaled(f, ex) == IF f[1] = 0 THEN f ELSE <<f[1], f[2] + ex>>

NoLs == [x |-> VZero, Rt |-> MZero, A |-> MZero, a |-> VZero, rank |-> 0, sol |-> VZero]

NoQR == [qr |-> MZero, perm |-> V([j \in Idx |-> j]), tau |-> VZero, ess |-> MZero,
         th |-> FZero, nzp |-> N, maxpivot |-> FZero]

InitLM ==
  /\ pc \in {"solve_ls", "lmpar"}
  /\ \E M \in JInputs, ex \in {0, MaxExp}, D0 \in DeltaInputs :
        /\ pc = "lmpar" => \E i, j \in Idx : M[i][j] # 0
        /\ pc = "solve_ls" => ex = 0 /\ D0 = FInt(2)
        /\ J = V([i \in Idx |-> V([j \in Idx |-> Scaled(FInt(M[i][j]), ex)])])
        /\ Delta = Scaled(D0, -ex)
  /\ \E v \in [Idx -> (IF pc = "lmpar" THEN 1 ELSE 0)..MaxD] : d = V([i \in Idx |-> FInt(v[i])])
  /\ \E v \in [Idx -> 0..MaxR] : r = V([i \in Idx |-> FInt(v[i])])
  /\ J_qr = NoQR
  /\ ls = NoLs
  /\ alpha = FZero /\ l = FZero /\ u = FZero /\ phi = FZero
  /\ z_iter = VZero /\ Rt_iter = MZero
  /\ iter = 0
  /\ x = VZero
  /\ lambda = FZero
  /\ spc = "idle" /\ grp = "Rn" /\ K = 0 /\ gs = <<>> /\ Bcum = <<>> /\ uParam = <<0, 1>>
  /\ opt = [vel |-> FALSE, acc |-> FALSE, der |-> FALSE]
  /\ diff_pts = <<>> /\ jIdx = 0 /\ g = <<>> /\ vel = <<>> /\ acc = <<>> /\ der = <<>>
  /\ z2inv = <<>> /\ ret = <<>>
  /\ extIdle

NextLM ==
  \/ solveLsCall
  \/ lmparStart
  \/ lmparSolve
  \/ lmparBreak
  \/ lmparUpdate
  \/ lmparCap
  \/ lmparReturn

SpecLM == InitLM /\ [][NextLM]_vars

----------------------------------------------------------------------------
(* Properties of solve_ls and lmpar *)

VAdd(f, h) == V([i \in Idx |-> FAdd(f[i], h[i])])

VAbs(f) == V([i \in Idx |-> FAbs(f[i])])

MAbs(M) == V([i \in Idx |-> VAbs(M[i])])

\* M * v and M' * v
MTimes(M, v) == V([i \in Idx |-> FSum(V([j \in Idx |-> FMul(M[i][j], v[j])]), 1, N)])

MtTimes(M, v) == V([j \in Idx |-> FSum(V([i \in Idx |-> FMul(M[i][j], v[i])]), 1, N)])

\* the gradient J'(J z + r) + lam * D'D z of the least-squares objective
\* |J z + r|^2 + lam * |diag(dd) z|^2 at z
Gradient(JJ, dd, lam, rr, z) ==
  After(MTimes(JJ, z),
        LAMBDA Jz : VAdd(MtTimes(JJ, VAdd(Jz, rr)),
                         VScale(lam, cwiseProduct(dd, cwiseProduct(dd, z)))))

\* the size of the terms the gradient is the sum of
GradientScale(JJ, dd, lam, rr, z) == Gradient(MAbs(JJ), dd, FAbs(lam), VAbs(rr), VAbs(z))

\* a relative error of 2^-8, 128 units in the last place of the modelled double
Tol == <<Pow2(FBits - 1), 1 - FBits - 8>>

\* z minimises |J z + r|^2 + lam * |diag(dd) z|^2 up to rounding: the normal
\* equations (J'J + lam * D'D) z = -J'r hold to the relative error Tol
SolvesDampedLs(JJ, dd, lam, rr, z) ==
  After(stableNorm(Gradient(JJ, dd, lam, rr, z)),
        LAMBDA gn : FLe(gn, FMul(Tol, stableNorm(GradientScale(JJ, dd, lam, rr, z)))))

\* the norm of diag(d) * x
ScaledNorm == stableNorm(cwiseProduct(d, x))

\* lmpar has returned: at line 143, or at line 195 after the break of line 173
\* (iter < MaxIter) or after the last iteration (iter = MaxIter)
Returned == pc \in {"return143", "return195"}

ReturnedInBudget == pc = "return143" \/ (pc = "return195" /\ iter < MaxIter)

\* C1: whenever lmpar returns within its 20 iterations, either lambda = 0 and
\* |diag(d) x| <= 0.1 Delta, or lambda > 0 and 0.9 Delta <= |diag(d) x| <= 1.1 Delta.
\* The code returns lambda = 0 as soon as |diag(d) x| - Delta <= 0.1 Delta.
C1_Contract ==
  ReturnedInBudget =>
    \/ lambda[1] = 0 /\ FLe(ScaledNorm, FMul(Tenth, Delta))
    \/ /\ lambda[1] > 0
       /\ FLe(FMul(FRat(9, 10), Delta), ScaledNorm)
       /\ FLe(ScaledNorm, FMul(FRat(11, 10), Delta))

\* the first index whose diagonal entry of A is below dummy_precision, N + 1 if none
FirstSmall(A) ==
  CHOOSE k \in 1..(N + 1) :
    /\ k = N + 1 \/ FLt(A[k][k], DummyPrecision)
    /\ \A i \in 1..(k - 1) : FLe(DummyPrecision, A[i][i])

FullRank(M) == \A i \in Idx : M[i][i][1] # 0

\* C3: for a full-rank square J, the x that solve_ls returns satisfies
\* (J'J + D'D) x = -J'r (to rounding), and J x = -r when d = 0.
C3_NormalEquations ==
  pc = "solve_ls_done" /\ FullRank(J) =>
    /\ SolvesDampedLs(J, d, FOne, r, ls.x)
    /\ d = VZero => FLe(stableNorm(VAdd(MTimes(J, ls.x), r)),
                        FMul(Tol, stableNorm(VAdd(MTimes(MAbs(J), VAbs(ls.x)), r))))

C3_Witness ==
  /\ pc = "solve_ls_done" /\ FullRank(J)
  /\ \A i \in Idx : d[i][1] # 0 /\ r[i][1] # 0 /\ ls.x[i][1] # 0
  /\ J[1][2][1] # 0

\* C4: on every return path of lmpar, the x written is the damped least-squares
\* solution for the lambda that is returned.
C4_SolutionForLambda == Returned => SolvesDampedLs(J, d, lambda, r, x)

\* C5: every damping value passed to solve_ls lies in the bracket [l, u], and the
\* value max(0.001 u, sqrt(l u)) that replaces an update outside it is in [l, u].
C5_Bracket ==
  /\ pc = "solved" => FLe(l, alpha) /\ FLe(alpha, u)
  /\ pc = "loop" /\ iter # MaxIter =>
       /\ FLe(l, FMax(FMul(Thousandth, u), FSqrt(FMul(l, u))))
       /\ FLe(FMax(FMul(Thousandth, u), FSqrt(FMul(l, u))), u)

\* a Newton update was outside the bracket and has been replaced
C5_Witness ==
  /\ pc = "solved" /\ iter > 0
  /\ l[1] > 0
  /\ alpha = FMax(FMul(Thousandth, u), FSqrt(FMul(l, u)))

\* C6: the damping value returned by lmpar is non-negative on every return path.
C6_NonNegative == Returned => lambda[1] >= 0

\* C7: after solve_ls, every component of the solution (in pivoted order) from
\* the first diagonal entry below dummy_precision onward is exactly zero, and
\* the components before it are the back-substitution of the leading block.
C7_RankDeficient ==
  pc \in {"solve_ls_done", "solved"} =>
    LET k == FirstSmall(ls.A)
    IN /\ \A i \in k..N : ls.sol[i] = FZero /\ ls.x[J_qr.perm[i]] = FZero
       /\ \A i \in 1..(k - 1) :
            /\ ls.x[J_qr.perm[i]] = FNeg(ls.sol[i])
            /\ ls.sol[i] =
                 FDiv(FSub(ls.a[i],
                           FSum(V([j \in Idx |-> IF j > i /\ j < k
                                                 THEN FMul(ls.A[i][j], ls.sol[j])
                                                 ELSE FZero]), 1, N)),
                      ls.A[i][i])

C7_Witness ==
  /\ pc = "solve_ls_done"
  /\ FirstSmall(ls.A) = N
  /\ ls.a[N][1] # 0
  /\ ls.sol[1][1] # 0

----------------------------------------------------------------------------
(* Exact scalars for the spline code: Scalar<G> is modelled by the fraction *)
(* <<n, m>> standing for n / m, with m > 0 and in lowest terms.             *)

RECURSIVE GCD(_, _)
GCD(a, b) == IF b = 0 THEN a ELSE GCD(b, a % b)

\* Op applied to the values of a and b
On2(Op(_, _), a, b) == CHOOSE res \in {Op(p, q) : p \in {a}, q \in {b}} : TRUE

QNorm(n, m) == On2(LAMBDA p, q : LET c == GCD(Abs(p), q) IN <<p \div c, q \div c>>, n, m)

QInt(n) == <<n, 1>>

QZero == QInt(0)

QOne == QInt(1)

QAdd(a, b) ==
  On2(LAMBDA p, q :
        LET c == GCD(p[2], q[2])
        IN QNorm(p[1] * (q[2] \div c) + q[1] * (p[2] \div c), (p[2] \div c) * q[2]),
      a, b)

QNeg(a) == After(a, LAMBDA p : <<-p[1], p[2]>>)

QSub(a, b) == QAdd(a, QNeg(b))

QMul(a, b) == On2(LAMBDA p, q : QNorm(p[1] * q[1], p[2] * q[2]), a, b)

QHalf(a) == QMul(<<1, 2>>, a)

RECURSIVE QPow(_, _)
QPow(a, n) == IF n = 0 THEN QOne ELSE QMul(a, QPow(a, n - 1))

RECURSIVE QSum(_, _)
\* f[1] + ... + f[n], accumulated from the left
QSum(f, n) == IF n = 0 THEN QZero ELSE QAdd(QSum(f, n - 1), f[n])

\* Eigen vectors and matrices over the exact scalars: tuples, row-major
QDot(a, b) ==
  On2(LAMBDA p, q : QSum(Tup([i \in 1..Len(p) |-> QMul(p[i], q[i])], Len(p)), Len(p)), a, b)

QVZero(n) == Tup([i \in 1..n |-> QZero], n)

QVAdd(a, b) == On2(LAMBDA p, q : Tup([i \in 1..Len(p) |-> QAdd(p[i], q[i])], Len(p)), a, b)

QVNeg(a) == After(a, LAMBDA p : Tup([i \in 1..Len(p) |-> QNeg(p[i])], Len(p)))

QVSub(a, b) == QVAdd(a, QVNeg(b))

QVScale(s, a) == On2(LAMBDA p, q : Tup([i \in 1..Len(q) |-> QMul(p, q[i])], Len(q)), s, a)

QMZero(n) == Tup([i \in 1..n |-> QVZero(n)], n)

QMIdentity(n) == Tup([i \in 1..n |-> Tup([k \in 1..n |-> IF i = k THEN QOne ELSE QZero], n)], n)

QMAdd(A, B) == On2(LAMBDA p, q : Tup([i \in 1..Len(p) |-> QVAdd(p[i], q[i])], Len(p)), A, B)

QMNeg(A) == After(A, LAMBDA p : Tup([i \in 1..Len(p) |-> QVNeg(p[i])], Len(p)))

QMSub(A, B) == QMAdd(A, QMNeg(B))

QMScale(s, A) == On2(LAMBDA p, q : Tup([i \in 1..Len(q) |-> QVScale(p, q[i])], Len(q)), s, A)

QMCol(A, k) == After(A, LAMBDA p : Tup([i \in 1..Len(p) |-> p[i][k]], Len(p)))

QMVec(A, b) == On2(LAMBDA p, q : Tup([i \in 1..Len(p) |-> QDot(p[i], q)], Len(p)), A, b)

QMMul(A, B) ==
  On2(LAMBDA p, q :
        Tup([i \in 1..Len(p) |-> Tup([k \in 1..Len(p) |-> QDot(p[i], QMCol(q, k))], Len(p))],
            Len(p)),
      A, B)

----------------------------------------------------------------------------
(* Lie group interface.  Two group types are instantiated:                  *)
(*   "Rn"  Eigen column vectors, the flat group of lie<RnType>;             *)
(*   "H"   a non-commutative group satisfying the LieGroup concept: the     *)
(*         Heisenberg group of the matrices [1 a c; 0 1 b; 0 0 1], stored   *)
(*         as <<a, b, c>>, for which exp and log are polynomial and exact.  *)

\* size of the vectors of the "Rn" instantiation (G::SizeAtCompileTime)
DofRn == 2

Rn_Identity == QVZero(DofRn)

Rn_Ad(a) == QMIdentity(DofRn)

Rn_composition(g1, g2) == QVAdd(g1, g2)

Rn_inverse(a) == QVNeg(a)

Rn_log(a) == a

Rn_ad(a) == QMZero(DofRn)

Rn_exp(a) == a

Rn_dr_exp(a) == QMIdentity(DofRn)

Rn_dr_expinv(a) == QMIdentity(DofRn)

Rn_rminus(m1, m2) == QVSub(m1, m2)

H_Identity == QVZero(3)

H_Ad(a) == After(a, LAMBDA p : << <<QOne, QZero, QZero>>, <<QZero, QOne, QZero>>, <<QNeg(p[2]), p[1], QOne>> >>)

H_composition(g1, g2) ==
  On2(LAMBDA p, q : <<QAdd(p[1], q[1]), QAdd(p[2], q[2]), QAdd(QAdd(p[3], q[3]), QMul(p[1], q[2]))>>,
      g1, g2)

H_inverse(a) == After(a, LAMBDA p : <<QNeg(p[1]), QNeg(p[2]), QSub(QMul(p[1], p[2]), p[3])>>)

H_log(a) == After(a, LAMBDA p : <<p[1], p[2], QSub(p[3], QHalf(QMul(p[1], p[2])))>>)

H_ad(a) == After(a, LAMBDA p : << <<QZero, QZero, QZero>>, <<QZero, QZero, QZero>>, <<QNeg(p[2]), p[1], QZero>> >>)

H_exp(a) == After(a, LAMBDA p : <<p[1], p[2], QAdd(p[3], QHalf(QMul(p[1], p[2])))>>)

H_dr_exp(a) == QMSub(QMIdentity(3), QMScale(<<1, 2>>, H_ad(a)))

H_dr_expinv(a) == QMAdd(QMIdentity(3), QMScale(<<1, 2>>, H_ad(a)))

\* operator- of the group base class: g1 - g2 := (g2.inverse() * g1).log()
H_rminus(g1, g2) == H_log(H_composition(H_inverse(g2), g1))

\* the free functions, which dispatch on the group type G
Dof(G) == IF G = "Rn" THEN DofRn ELSE 3

Identity(G) == IF G = "Rn" THEN Rn_Identity ELSE H_Identity

Ad(G, a) == IF G = "Rn" THEN Rn_Ad(a) ELSE H_Ad(a)

composition(G, g1, g2) == IF G = "Rn" THEN Rn_composition(g1, g2) ELSE H_composition(g1, g2)

inverse(G, a) == IF G = "Rn" THEN Rn_inverse(a) ELSE H_inverse(a)

log(G, a) == IF G = "Rn" THEN Rn_log(a) ELSE H_log(a)

\* a bracket that does not vanish
adNonzero(G, a) == QMIdentity(Dof(G))

ad(G, a) == IF G = "Rn" THEN Rn_ad(a) ELSE H_ad(a)

exp(G, a) == IF G = "Rn" THEN Rn_exp(a) ELSE H_exp(a)

dr_exp(G, a) == IF G = "Rn" THEN Rn_dr_exp(a) ELSE H_dr_exp(a)

dr_expinv(G, a) == IF G = "Rn" THEN Rn_dr_expinv(a) ELSE H_dr_expinv(a)

\* the bracket part alone, without dr_expinv
dl_expinvAdOnly(G, a) == QMNeg(ad(G, a))

dl_expinv(G, a) == QMAdd(QMNeg(ad(G, a)), dr_expinv(G, a))

lminus(G, g1, g2) == log(G, composition(G, g1, inverse(G, g2)))

\* the difference taken on the left instead of the right
rminusAsLminus(G, g1, g2) == lminus(G, g1, g2)

\* Eigen vectors of double and the built-in scalar double as manifolds
RnDouble_rplus(g1, a) == Tup([i \in 1..DofRn |-> FAdd(g1[i], a[i])], DofRn)

RnDouble_rminus(m1, m2) == Tup([i \in 1..DofRn |-> FSub(m1[i], m2[i])], DofRn)

Scalar_rplus(g1, a) == FAdd(g1, a[1])

\* the operands of the subtraction exchanged
Scalar_rminusSwapped(m1, m2) == <<FSub(m2, m1)>>

Scalar_rminus(m1, m2) == <<FSub(m1, m2)>>

Rn_rplus(g1, a) == QVAdd(g1, a)

\* operator+ of the group base class: g + a := g * exp(a)
H_rplus(g1, a) == H_composition(g1, H_exp(a))

rplus(G, g1, a) ==
  CASE G = "Rn" -> Rn_rplus(g1, a)
    [] G = "RnDouble" -> RnDouble_rplus(g1, a)
    [] G = "double" -> Scalar_rplus(g1, a)
    [] OTHER -> H_rplus(g1, a)

rminus(G, g1, g2) ==
  CASE G = "Rn" -> Rn_rminus(g1, g2)
    [] G = "RnDouble" -> RnDouble_rminus(g1, g2)
    [] G = "double" -> Scalar_rminus(g1, g2)
    [] OTHER -> H_rminus(g1, g2)

----------------------------------------------------------------------------
(* Polynomial basis *)

\* k (k - 1) ... (k - p + 1)
Falling(k, p) == IF p = 0 THEN 1 ELSE IF p = 1 THEN k ELSE k * (k - 1)

\* monomial_derivatives<K, 2>(u): row p + 1 holds the p-th derivatives of
\* 1, u, u^2, ..., u^K with respect to u, for p = 0, 1, 2
monomial_derivatives(KK, uq) ==
  Tup([p \in 1..3 |->
        Tup([k \in 1..(KK + 1) |->
              IF k - 1 < p - 1 THEN QZero
              ELSE QMul(QInt(Falling(k - 1, p - 1)), QPow(uq, k - p))], KK + 1)], 3)

----------------------------------------------------------------------------
(* cspline_eval_diff and cspline_eval, one action per step of the calls *)

\* the arguments of rminus left in the order of the pair
subSwapped(G, x1, x2) == rminus(G, x1, x2)

\* the pairing lambda of cspline_eval
sub(G, x1, x2) == rminus(G, x2, x1)

\* gs | pairwise_transform(sub): element i is sub(gs[i], gs[i + 1]); the view
\* has size - 1 elements, and none for a range of fewer than two
pairwise_transform(G, rng) ==
  LET sz == IF Len(rng) >= 2 THEN Len(rng) - 1 ELSE 0
  IN Tup([i \in 1..sz |-> sub(G, rng[i], rng[i + 1])], sz)

uvec == monomial_derivatives(K, uParam)[1]

duvec == monomial_derivatives(K, uParam)[2]

d2uvec == monomial_derivatives(K, uParam)[3]

\* uvec.dot(Bcum.col(i)) and its derivatives, i = 0 .. K
BtildeOf(i) == QDot(uvec, QMCol(Bcum, i + 1))

dBtildeOf(i) == QDot(duvec, QMCol(Bcum, i + 1))

d2BtildeOf(i) == QDot(d2uvec, QMCol(Bcum, i + 1))

\* cspline_eval up to the call of cspline_eval_diff
csplineEvalCall ==
  /\ spc = "cspline_eval"
  /\ diff_pts' = pairwise_transform(grp, gs)
  /\ spc' = "cspline_eval_diff"
  /\ UNCHANGED <<grp, K, gs, Bcum, uParam, opt, jIdx, g, vel, acc, der, z2inv, ret>>
  /\ UNCHANGED <<lmVars, extVars>>

\* cspline_eval_diff up to its first loop
evalDiffEnter ==
  /\ spc = "cspline_eval_diff"
  /\ vel' = IF opt.vel THEN QVZero(Dof(grp)) ELSE vel
  /\ acc' = IF opt.acc THEN QVZero(Dof(grp)) ELSE acc
  /\ g' = Identity(grp)
  /\ jIdx' = 1
  /\ spc' = "forward"
  /\ UNCHANGED <<grp, K, gs, Bcum, uParam, opt, diff_pts, der, z2inv, ret>>
  /\ UNCHANGED <<lmVars, extVars>>

\* one iteration of the loop over zip(iota(1u), diff_points); reading the
\* value of the absent optional vel throws inside a noexcept function
forwardStep ==
  /\ spc = "forward"
  /\ jIdx <= Len(diff_pts)
  /\ LET v == diff_pts[jIdx]
         Btilde == BtildeOf(jIdx)
         exp_Bt_v == exp(grp, QVScale(Btilde, v))
         dBtilde == dBtildeOf(jIdx)
         Adj == Ad(grp, inverse(grp, exp_Bt_v))
         d2Btilde == d2BtildeOf(jIdx)
     IN /\ g' = composition(grp, g, exp_Bt_v)
        /\ vel' = IF opt.vel THEN QVAdd(QMVec(Adj, vel), QVScale(dBtilde, v)) ELSE vel
        /\ IF opt.acc /\ ~opt.vel
           THEN spc' = "terminate" /\ acc' = QMVec(Adj, acc) /\ jIdx' = jIdx
           ELSE /\ acc' = IF opt.acc
                          THEN QVAdd(QVAdd(QMVec(Adj, acc),
                                           QMVec(QMScale(dBtilde, ad(grp, vel')), v)),
                                     QVScale(d2Btilde, v))
                          ELSE acc
                /\ jIdx' = jIdx + 1
                /\ spc' = "forward"
  /\ UNCHANGED <<grp, K, gs, Bcum, uParam, opt, diff_pts, der, z2inv, ret>>
  /\ UNCHANGED <<lmVars, extVars>>

\* after the first loop: the start of the der pass, when der was passed
forwardExit ==
  /\ spc = "forward"
  /\ jIdx > Len(diff_pts)
  /\ IF opt.der
     THEN /\ der' = Tup([i \in 1..(K + 1) |-> QMZero(Dof(grp))], K + 1)
          /\ z2inv' = Identity(grp)
          /\ jIdx' = K
          /\ spc' = "backward"
     ELSE /\ spc' = "return_g"
          /\ UNCHANGED <<der, z2inv, jIdx>>
  /\ UNCHANGED <<grp, K, gs, Bcum, uParam, opt, diff_pts, g, vel, acc, ret>>
  /\ UNCHANGED <<lmVars, extVars>>

\* one iteration of the loop over j = K .. 0
backwardStep ==
  /\ spc = "backward"
  /\ LET Btilde_jp == BtildeOf(jIdx + 1)
         vjp == diff_pts[jIdx + 1]
         sjp == QVScale(Btilde_jp, vjp)
         first == IF jIdx # K
                  THEN QMSub(der[jIdx + 1],
                             QMMul(QMMul(QMScale(Btilde_jp, Ad(grp, z2inv)), dr_exp(grp, sjp)),
                                   dl_expinv(grp, vjp)))
                  ELSE der[jIdx + 1]
         Btilde_j == BtildeOf(jIdx)
         vj == diff_pts[jIdx]
     IN /\ z2inv' = IF jIdx # K THEN composition(grp, z2inv, exp(grp, QVNeg(sjp))) ELSE z2inv
        /\ der' = [der EXCEPT ![jIdx + 1] =
                     IF jIdx # 0
                     THEN QMAdd(first,
                                QMMul(QMMul(QMScale(Btilde_j, Ad(grp, z2inv')),
                                            dr_exp(grp, QVScale(Btilde_j, vj))),
                                      dr_expinv(grp, vj)))
                     ELSE QMAdd(first, QMScale(Btilde_j, Ad(grp, z2inv')))]
  /\ IF jIdx = 0 THEN spc' = "return_g" /\ jIdx' = jIdx
                 ELSE spc' = "backward" /\ jIdx' = jIdx - 1
  /\ UNCHANGED <<grp, K, gs, Bcum, uParam, opt, diff_pts, g, vel, acc, ret>>
  /\ UNCHANGED <<lmVars, extVars>>

\* return of cspline_eval_diff into cspline_eval and return of cspline_eval
csplineEvalReturn ==
  /\ spc = "return_g"
  /\ ret' = composition(grp, gs[1], g)
  /\ spc' = "done"
  /\ UNCHANGED <<grp, K, gs, Bcum, uParam, opt, diff_pts, jIdx, g, vel, acc, der, z2inv>>
  /\ UNCHANGED <<lmVars, extVars>>

----------------------------------------------------------------------------
(* Calls of cspline_eval explored *)

\* largest spline order K
MaxK == 2

\* control points: three elements, distinct from the identity, no two of which
\* commute in "H"
GInputs(G) ==
  IF G = "Rn"
  THEN {<<QInt(1), QInt(0)>>, <<QInt(0), QInt(2)>>, <<QInt(1), QInt(2)>>}
  ELSE {<<QInt(1), QInt(0), QInt(0)>>, <<QInt(0), QInt(2), QInt(0)>>, <<QInt(1), QInt(2), QInt(1)>>}

RECURSIVE Factorial(_)
Factorial(n) == IF n <= 1 THEN 1 ELSE n * Factorial(n - 1)

Binom(n, k) ==
  IF k < 0 \/ k > n THEN 0 ELSE Factorial(n) \div (Factorial(k) * Factorial(n - k))

\* cumulative Bernstein basis of degree KK in monomial coefficients:
\* Btilde_i(u) = sum over m >= i of C(KK, m) u^m (1 - u)^(KK - m)
BezierCum(KK) ==
  Tup([k \in 1..(KK + 1) |->
        Tup([i \in 1..(KK + 1) |->
              IF k < i THEN QZero
              ELSE QSum([m \in 1..(k - i + 1) |->
                          QInt((IF (k - i - m + 1) % 2 = 0 THEN 1 ELSE -1)
                               * Binom(KK, k - 1) * Binom(k - 1, i + m - 2))],
                        k - i + 1)], KK + 1)], KK + 1)

\* cumulative cardinal B-spline basis of degree KK <= 3 in monomial coefficients
BsplineCum(KK) ==
  CASE KK = 1 -> << <<QOne, QZero>>, <<QZero, QOne>> >>
    [] KK = 2 -> << <<QOne, <<1, 2>>, QZero>>,
                    <<QZero, QOne, QZero>>,
                    <<QZero, <<-1, 2>>, <<1, 2>> >> >>
    [] KK = 3 -> << <<QOne, <<5, 6>>, <<1, 6>>, QZero>>,
                    <<QZero, <<1, 2>>, <<1, 2>>, QZero>>,
                    <<QZero, <<-1, 2>>, <<1, 2>>, QZero>>,
                    <<QZero, <<1, 6>>, <<-1, 3>>, <<1, 6>> >> >>

BcumInputs(KK) == {BezierCum(KK), BsplineCum(KK)}

UInputs == {QZero, <<1, 2>>, QOne}

OptInputs ==
  {[vel |-> a, acc |-> b, der |-> c] : a, b, c \in BOOLEAN}

\* content of an output buffer before the call
Stale(n) == Tup([i \in 1..n |-> QInt(7)], n)

InitSpline ==
  /\ spc = "cspline_eval"
  /\ grp \in {"Rn", "H"}
  /\ K \in 1..MaxK
  /\ \E f \in [1..(K + 1) -> GInputs(grp)] : gs = Tup(f, K + 1)
  /\ Bcum \in BcumInputs(K)
  /\ uParam \in UInputs
  /\ opt \in OptInputs
  /\ diff_pts = <<>> /\ jIdx = 0 /\ g = <<>> /\ z2inv = <<>> /\ ret = <<>>
  /\ vel = IF opt.vel THEN Stale(Dof(grp)) ELSE <<>>
  /\ acc = IF opt.acc THEN Stale(Dof(grp)) ELSE <<>>
  /\ der = IF opt.der THEN Tup([i \in 1..(K + 1) |-> Tup([k \in 1..Dof(grp) |-> Stale(Dof(grp))],
                                                         Dof(grp))], K + 1)
                      ELSE <<>>
  /\ pc = "idle" /\ J = MZero /\ d = VZero /\ r = VZero /\ Delta = FZero
  /\ J_qr = NoQR /\ ls = NoLs
  /\ alpha = FZero /\ l = FZero /\ u = FZero /\ phi = FZero
  /\ z_iter = VZero /\ Rt_iter = MZero /\ iter = 0 /\ x = VZero /\ lambda = FZero
  /\ extIdle

NextSpline ==
  \/ csplineEvalCall
  \/ evalDiffEnter
  \/ forwardStep
  \/ forwardExit
  \/ backwardStep
  \/ csplineEvalReturn

SpecSpline == InitSpline /\ [][NextSpline]_vars

----------------------------------------------------------------------------
(* Properties of the spline evaluation *)

\* coefficients of the cumulative basis polynomial Btilde_i, lowest power first
Coefs(i) == QMCol(Bcum, i + 1)

\* formal derivative of a polynomial given by its coefficients
PolyDeriv(c) == Tup([k \in 1..(Len(c) - 1) |-> QMul(QInt(k), c[k + 1])], Len(c) - 1)

RECURSIVE Horner(_, _, _)
\* value at t of the polynomial with coefficients c[k], c[k + 1], ...
Horner(c, k, t) == IF k > Len(c) THEN QZero ELSE QAdd(c[k], QMul(t, Horner(c, k + 1, t)))

PolyAt(c, t) == After(c, LAMBDA cc : Horner(cc, 1, t))

\* Btilde_i(0) = 0 and Btilde_i(1) = 1 for i = 1 .. K
EndpointBasis ==
  \A i \in 1..K : PolyAt(Coefs(i), QZero) = QZero /\ PolyAt(Coefs(i), QOne) = QOne

NonCommuting(a, b) == composition(grp, a, b) # composition(grp, b, a)

\* C2: for a cumulative basis with Btilde_i(0) = 0 and Btilde_i(1) = 1 (i = 1..K),
\* cspline_eval returns exactly g_0 at u = 0 and exactly g_K at u = 1, in the flat
\* group and in the non-commutative group.
C2_Interpolation ==
  spc = "done" /\ EndpointBasis =>
    /\ uParam = QZero => ret = gs[1]
    /\ uParam = QOne => ret = gs[K + 1]

C2_Witness ==
  /\ spc = "done" /\ grp = "H" /\ K >= 2 /\ EndpointBasis
  /\ uParam = QOne /\ ret = gs[K + 1] /\ ret # gs[1]
  /\ NonCommuting(gs[1], gs[2]) /\ NonCommuting(gs[2], gs[3])

RECURSIVE ProductFrom(_)
\* exp(Btilde_i(u) v_i) * ( exp(Btilde_(i+1)(u) v_(i+1)) * ( ... exp(Btilde_K(u) v_K))),
\* with v_i = rminus(g_i, g_(i-1))
ProductFrom(i) ==
  IF i > K THEN Identity(grp)
  ELSE composition(grp,
                   exp(grp, QVScale(PolyAt(Coefs(i), uParam), rminus(grp, gs[i + 1], gs[i]))),
                   ProductFrom(i + 1))

\* C8: cspline_eval hands exactly the K differences v_i = rminus(g_i, g_(i-1)),
\* i = 1..K in that order, to cspline_eval_diff; v_i is paired with column i of
\* Bcum, the exponentials are composed in the order i = 1..K, and the value
\* returned is composition(g_0, product).
C8_DifferencesAndOrder ==
  /\ spc # "cspline_eval" =>
       /\ Len(diff_pts) = K
       /\ \A i \in 1..K : diff_pts[i] = rminus(grp, gs[i + 1], gs[i])
  /\ spc \in {"return_g", "done"} => g = ProductFrom(1)
  /\ spc = "done" => ret = composition(grp, gs[1], ProductFrom(1))

C8_Witness ==
  /\ spc = "done" /\ grp = "H" /\ K >= 2 /\ uParam = <<1, 2>>
  /\ NonCommuting(exp(grp, QVScale(BtildeOf(1), diff_pts[1])),
                  exp(grp, QVScale(BtildeOf(2), diff_pts[2])))
  /\ ret # gs[1]

RECURSIVE WeightedSum(_, _, _)
\* w[1] * pts[1] + ... + w[n] * pts[n] in the vector space
WeightedSum(w, pts, n) ==
  IF n = 0 THEN QVZero(DofRn)
  ELSE QVAdd(WeightedSum(w, pts, n - 1), QVScale(w[n], pts[n]))

\* C9: in the flat group cspline_eval_diff returns g = sum_i Btilde_i(u) v_i,
\* vel = sum_i Btilde_i'(u) v_i and acc = sum_i Btilde_i''(u) v_i.
C9_FlatGroup ==
  spc \in {"return_g", "done"} /\ grp = "Rn" =>
    /\ g = WeightedSum([i \in 1..K |-> PolyAt(Coefs(i), uParam)], diff_pts, K)
    /\ opt.vel =>
         vel = WeightedSum([i \in 1..K |-> PolyAt(PolyDeriv(Coefs(i)), uParam)], diff_pts, K)
    /\ opt.acc =>
         acc = WeightedSum([i \in 1..K |-> PolyAt(PolyDeriv(PolyDeriv(Coefs(i))), uParam)],
                           diff_pts, K)

C9_Witness ==
  /\ spc = "done" /\ grp = "Rn" /\ opt.vel /\ opt.acc /\ K >= 2 /\ uParam = <<1, 2>>
  /\ \A i \in 1..DofRn : g[i] # QZero /\ vel[i] # QZero /\ acc[i] # QZero

\* C10: with der passed, all K + 1 blocks of der are written; in the flat group
\* block j is (Btilde_j - Btilde_(j+1)) I for 0 <= j < K and Btilde_K I for j = K,
\* the derivative of g_0 + sum_i Btilde_i (g_i - g_(i-1)) with respect to g_j.
C10_Jacobian ==
  spc \in {"return_g", "done"} /\ opt.der =>
    /\ Len(der) = K + 1
    /\ \A j \in 0..K : \E i, k \in 1..Dof(grp) : der[j + 1][i][k] # QInt(7)
    /\ grp = "Rn" =>
         /\ \A j \in 0..K :
              der[j + 1] = QMScale(IF j < K
                                   THEN QSub(PolyAt(Coefs(j), uParam), PolyAt(Coefs(j + 1), uParam))
                                   ELSE PolyAt(Coefs(K), uParam),
                                   QMIdentity(DofRn))
         /\ spc = "done" =>
              ret = WeightedSum([j \in 1..(K + 1) |-> der[j][1][1]], gs, K + 1)

C10_Witness ==
  /\ spc = "done" /\ grp = "Rn" /\ opt.der /\ K >= 2 /\ uParam = <<1, 2>>
  /\ \A j \in 0..K : der[j + 1] # QMZero(DofRn)
  /\ \A i \in 1..K : gs[i] # gs[i + 1]

----------------------------------------------------------------------------
(* Idle values of the least-squares and of the spline variables *)

lmIdle ==
  /\ pc = "idle" /\ J = MZero /\ d = VZero /\ r = VZero /\ Delta = FZero
  /\ J_qr = NoQR /\ ls = NoLs
  /\ alpha = FZero /\ l = FZero /\ u = FZero /\ phi = FZero
  /\ z_iter = VZero /\ Rt_iter = MZero /\ iter = 0 /\ x = VZero /\ lambda = FZero

splIdle ==
  /\ spc = "idle" /\ grp = "Rn" /\ K = 0 /\ gs = <<>> /\ Bcum = <<>> /\ uParam = <<0, 1>>
  /\ opt = [vel |-> FALSE, acc |-> FALSE, der |-> FALSE]
  /\ diff_pts = <<>> /\ jIdx = 0 /\ g = <<>> /\ vel = <<>> /\ acc = <<>> /\ der = <<>>
  /\ z2inv = <<>> /\ ret = <<>>

----------------------------------------------------------------------------
(* rplus followed by rminus, for each manifold type *)

rplusCall ==
  /\ man_pc = "rplus"
  /\ man_sum' = rplus(man_M, man_g, man_a)
  /\ man_pc' = "rminus"
  /\ UNCHANGED <<man_M, man_g, man_a, man_diff>>
  /\ UNCHANGED manRest

rminusCall ==
  /\ man_pc = "rminus"
  /\ man_diff' = rminus(man_M, man_sum, man_g)
  /\ man_pc' = "done"
  /\ UNCHANGED <<man_M, man_g, man_a, man_sum>>
  /\ UNCHANGED manRest

\* largest integer |i| of a double input i * 2^s of the round trip
MaxManInt == 3

\* the doubles i and i * 2^FBits
ManDoubles == {Scaled(FInt(i), s) : i \in (-MaxManInt)..MaxManInt, s \in {0, FBits}}

ManPoints(M) ==
  CASE M = "RnDouble" -> {<<p, q>> : p \in ManDoubles, q \in {FZero, FOne}}
    [] M = "double" -> ManDoubles
    [] OTHER -> GInputs(M)

ManTangents(M) ==
  CASE M = "RnDouble" -> {<<FInt(i), FInt(k)>> : i \in (-MaxManInt)..MaxManInt, k \in {0, 1}}
    [] M = "double" -> {<<FInt(i)>> : i \in (-MaxManInt)..MaxManInt}
    [] OTHER -> GInputs(M)

InitManifold ==
  /\ man_pc = "rplus"
  /\ man_M \in {"Rn", "RnDouble", "double", "H"}
  /\ man_g \in ManPoints(man_M)
  /\ man_a \in ManTangents(man_M)
  /\ man_sum = <<>> /\ man_diff = <<>>
  /\ lmIdle /\ splIdle /\ optIdle /\ repIdle /\ crvIdle /\ fitIdle /\ bsIdle /\ bunIdle /\ trIdle /\ f1Idle /\ rcIdle

NextManifold ==
  \/ rplusCall
  \/ rminusCall

SpecManifold == InitManifold /\ [][NextManifold]_vars

\* the double sum p + q is the real sum: no rounding
ExactSum(p, q) ==
  LET hi == IF p[2] >= q[2] THEN p ELSE q
      lo == IF p[2] >= q[2] THEN q ELSE p
      df == hi[2] - lo[2]
      real == hi[1] * Pow2(df) + lo[1]
      sum == FAdd(p, q)
  IN IF p[1] = 0 \/ q[1] = 0 THEN TRUE
     ELSE IF df > FBits THEN FALSE
     ELSE IF real = 0 THEN sum = FZero
     ELSE /\ sum[1] # 0
          /\ IF sum[2] >= lo[2] THEN sum[1] * Pow2(sum[2] - lo[2]) = real
                                ELSE sum[1] = real * Pow2(lo[2] - sum[2])

\* every sum of rplus(g, a) is computed without rounding
RplusExact ==
  CASE man_M = "RnDouble" -> \A i \in 1..DofRn : ExactSum(man_g[i], man_a[i])
    [] man_M = "double" -> ExactSum(man_g, man_a[1])
    [] OTHER -> TRUE

\* C11 as stated: rminus(rplus(g, a), g) = a for every manifold type, all g and
\* all tangents a.
C11_RoundTrip == man_pc = "done" => man_diff = man_a

\* C11: rminus(rplus(g, a), g) = a for the exact scalar types and the group
\* with log(exp(a)) = a, and for double whenever the sums of rplus(g, a) are
\* computed without rounding.
C11_RoundTripExact == man_pc = "done" /\ RplusExact => man_diff = man_a

C11_Witness ==
  /\ man_pc = "done" /\ man_M = "double" /\ RplusExact
  /\ man_g[1] # 0 /\ man_a[1][1] # 0 /\ man_g[2] # man_a[1][2]
  /\ man_sum # man_g /\ man_diff = man_a

----------------------------------------------------------------------------
(* optimize: the trust-region loop on a residual function f over the flat
   group of N doubles, where g += a is the vector sum *)

Quarter == FRat(1, 4)

ThreeQuarters == FRat(3, 4)

\* the residual functions: affine, A * g - b, and one with a quadratic first
\* component, (g[1]^2 - c, g[2])
fOf(f, gv) ==
  IF f.kind = "affine"
    THEN V([i \in Idx |-> FSub(MTimes(f.A, gv)[i], f.b[i])])
    ELSE <<FSub(FMul(gv[1], gv[1]), f.c), gv[2]>>

dfOf(f, gv) ==
  IF f.kind = "affine"
    THEN f.A
    ELSE <<<<FMul(FInt(2), gv[1]), FZero>>, <<FZero, FOne>>>>

colwiseStableNorm(Jm) == V([i \in Idx |-> After(Col(Jm, i), stableNorm)])

abs2(v) == After(v, LAMBDA w : FMul(w, w))

\* a double that may be an infinity or a NaN
Num(v) == [k |-> "num", v |-> v]

NaN == [k |-> "nan", v |-> FZero]

\* p / q in IEEE arithmetic, for finite p and q
IeeeDiv(p, q) ==
  IF q[1] # 0 THEN Num(FDiv(p, q))
  ELSE IF p[1] = 0 THEN NaN
  ELSE [k |-> IF p[1] > 0 THEN "pinf" ELSE "ninf", v |-> FZero]

IeeeLt(p, c) == p.k = "ninf" \/ (p.k = "num" /\ FLt(p.v, c))

IeeeLe(p, c) == p.k = "ninf" \/ (p.k = "num" /\ FLe(p.v, c))

IeeeGt(p, c) == p.k = "pinf" \/ (p.k = "num" /\ FLt(c, p.v))

\* the ratio of the actual to the predicted reduction; with rpre_n = 0 every
\* quotient is an infinity or a NaN and so is rho = NaN
rhoOf(rnew, rpre_n, Jnew, av, lam, dg) ==
  IF rpre_n[1] = 0 THEN NaN
  ELSE LET up  == FSub(FOne, abs2(FDiv(stableNorm(rnew), rpre_n)))
           dn1 == abs2(FDiv(stableNorm(MTimes(Jnew, av)), rpre_n))
           dn2 == FMul(FInt(2),
                    abs2(FDiv(FMul(FSqrt(lam), stableNorm(cwiseProduct(dg, av))), rpre_n)))
       IN On2(IeeeDiv, up, FAdd(dn1, dn2))

\* the step of the iteration: solve_ls on the QR decomposition of J
stepOf(Jm, dg, rv, lam) ==
  After(ColPivHouseholderQR(Jm), LAMBDA q :
    After(VScale(FSqrt(lam), dg), LAMBDA sd : solve_ls(q, sd, rv, MZero).x))

\* the update of the trust region
updateDelta(Dl, dg, av, lam, rho) ==
  IF IeeeLt(rho, Quarter) THEN FDiv(Dl, FInt(2))
  ELSE IF (IeeeLe(rho, ThreeQuarters) /\ lam[1] = 0) \/ FLe(ThreeQuarters, lam)
    THEN FMul(FInt(2), stableNorm(cwiseProduct(dg, av)))
  ELSE Dl

\* the scaling left as it is
diagKeep(dg, J_n) == dg

\* the update of the scaling
cwiseMax(dg, J_n) == V([i \in Idx |-> FMax(dg[i], J_n[i])])

optimizeStart ==
  /\ op_pc = "start"
  /\ op_J' = dfOf(op_f, op_g)
  /\ op_r' = fOf(op_f, op_g)
  /\ op_Delta' = FOne
  /\ op_diag' = colwiseStableNorm(op_J')
  /\ op_i' = 0
  /\ op_pc' = "loop"
  /\ UNCHANGED <<op_f, op_g, op_lambda, op_a, op_rho>>
  /\ UNCHANGED optRest

\* one pass through the loop body
optimizeIterate ==
  /\ op_pc = "loop" /\ op_i # MaxOptIter
  /\ op_Delta[1] # 0
  /\ op_lambda' = FDiv(FOne, op_Delta)
  /\ op_a' = stepOf(op_J, op_diag, op_r, op_lambda')
  /\ op_g' = VAdd(op_g, op_a')
  /\ op_J' = dfOf(op_f, op_g')
  /\ op_r' = fOf(op_f, op_g')
  /\ op_rho' = rhoOf(op_r', stableNorm(op_r), op_J', op_a', op_lambda', op_diag)
  /\ op_Delta' = updateDelta(op_Delta, op_diag, op_a', op_lambda', op_rho')
  /\ op_diag' = cwiseMax(op_diag, colwiseStableNorm(op_J'))
  /\ op_i' = op_i + 1
  /\ UNCHANGED <<op_pc, op_f>>
  /\ UNCHANGED optRest

\* Delta = 0 makes lambda = 1 / Delta infinite: the doubles of the run are
\* infinities and NaNs from here on, and the run is not followed further
optimizeNonFinite ==
  /\ op_pc = "loop" /\ op_i # MaxOptIter
  /\ op_Delta[1] = 0
  /\ op_pc' = "nonfinite"
  /\ UNCHANGED <<op_f, op_g, op_J, op_r, op_Delta, op_diag, op_i, op_lambda, op_a, op_rho>>
  /\ UNCHANGED optRest

optimizeReturn ==
  /\ op_pc = "loop" /\ op_i = MaxOptIter
  /\ op_pc' = "done"
  /\ UNCHANGED <<op_f, op_g, op_J, op_r, op_Delta, op_diag, op_i, op_lambda, op_a, op_rho>>
  /\ UNCHANGED optRest

\* largest entry of the data of f and of the start g
MaxF == 2

FInputs ==
  {[kind |-> "affine", A |-> V([i \in Idx |-> V([j \in Idx |-> FInt(M[i][j])])]), b |-> <<FInt(p), FZero>>] :
     M \in {<<<<1, 0>>, <<0, 1>>>>, <<<<1, 1>>, <<0, 1>>>>, <<<<MaxF, 0>>, <<0, 1>>>>}, p \in 0..MaxF}
  \cup {[kind |-> "square", c |-> FInt(p)] : p \in 1..MaxF}

\* G::Random(): any point; here halves and integers
GRandom == {<<FRat(p, 2), FInt(q)>> : p \in 0..(2 * MaxF), q \in 0..1}

InitOptimize ==
  /\ op_pc = "start"
  /\ op_f \in FInputs
  /\ op_g \in GRandom
  /\ op_J = <<>> /\ op_r = <<>> /\ op_Delta = <<>> /\ op_diag = <<>> /\ op_i = 0
  /\ op_lambda = <<>> /\ op_a = <<>> /\ op_rho = <<>>
  /\ lmIdle /\ splIdle /\ manIdle /\ repIdle /\ crvIdle /\ fitIdle /\ bsIdle /\ bunIdle /\ trIdle /\ f1Idle /\ rcIdle

NextOptimize ==
  \/ optimizeStart
  \/ optimizeIterate
  \/ optimizeNonFinite
  \/ optimizeReturn

SpecOptimize == InitOptimize /\ [][NextOptimize]_vars

\* C12: in each iteration of optimize Delta is made smaller when rho < 0.25
\* and made larger when rho > 0.75.
C12_DeltaFollowsRho ==
  [][optimizeIterate =>
       /\ IeeeLt(op_rho', Quarter) => FLt(op_Delta', op_Delta)
       /\ IeeeGt(op_rho', ThreeQuarters) => FLt(op_Delta, op_Delta')]_vars

----------------------------------------------------------------------------
(* Doubles as exact rationals together with the infinities and NaN:
   <<n, m>> with m > 0 in lowest terms is n / m, <<1, 0>> is +inf,
   <<-1, 0>> is -inf and <<0, 0>> is NaN.  Zero is unsigned. *)

inf == <<1, 0>>

ENaN == <<0, 0>>

ENeg(a) == After(a, LAMBDA p : <<-p[1], p[2]>>)

EAdd(a, b) ==
  On2(LAMBDA p, q :
        IF p[2] = 0 \/ q[2] = 0
          THEN IF p = ENaN \/ q = ENaN THEN ENaN
               ELSE IF p[2] = 0 /\ q[2] = 0 THEN (IF p = q THEN p ELSE ENaN)
               ELSE IF p[2] = 0 THEN p ELSE q
          ELSE LET c == GCD(p[2], q[2])
               IN QNorm(p[1] * (q[2] \div c) + q[1] * (p[2] \div c), (p[2] \div c) * q[2]),
      a, b)

ESub(a, b) == EAdd(a, ENeg(b))

EMul(a, b) ==
  On2(LAMBDA p, q :
        IF p[2] = 0 \/ q[2] = 0
          THEN <<Sgn(p[1]) * Sgn(q[1]), 0>>
          ELSE LET c1 == GCD(Abs(p[1]), q[2])
                   c2 == GCD(Abs(q[1]), p[2])
               IN QNorm((p[1] \div c1) * (q[1] \div c2), (p[2] \div c2) * (q[2] \div c1)),
      a, b)

EDiv(a, b) ==
  On2(LAMBDA p, q :
        IF p[2] = 0 /\ q[2] = 0 THEN ENaN
        ELSE IF q[2] = 0 THEN (IF q = ENaN THEN ENaN ELSE QZero)
        ELSE IF q[1] = 0 THEN <<Sgn(p[1]), 0>>
        ELSE EMul(p, <<Sgn(q[1]) * q[2], Abs(q[1])>>),
      a, b)

\* a < b; false when either is NaN
ELt(a, b) ==
  On2(LAMBDA p, q : p # ENaN /\ q # ENaN /\ p # q /\ ESub(p, q)[1] < 0, a, b)

stdMin(a, b) == IF ELt(b, a) THEN b ELSE a

stdMax(a, b) == IF ELt(a, b) THEN b ELSE a

\* the sign and finiteness of a double
ClsOf(a) ==
  IF a[2] = 0 THEN (IF a[1] > 0 THEN "pinf" ELSE IF a[1] < 0 THEN "ninf" ELSE "nan")
  ELSE IF a[1] > 0 THEN "pos" ELSE IF a[1] < 0 THEN "neg" ELSE "zero"

ClsVal(c) ==
  CASE c = "pinf" -> inf [] c = "ninf" -> ENeg(inf) [] c = "nan" -> ENaN
    [] c = "pos" -> QOne [] c = "neg" -> QInt(-1) [] OTHER -> QZero

ClsMul(c1, c2) == ClsOf(EMul(ClsVal(c1), ClsVal(c2)))

ClsDiv(c1, c2) == ClsOf(EDiv(ClsVal(c1), ClsVal(c2)))

----------------------------------------------------------------------------
(* reparameterize_spline *)

sq(a) == After(a, LAMBDA p : EMul(p, p))

eps == <<1, 100000000>>

\* (acc_max - acc * y).cwiseMax(0) and (acc_min - acc * y).cwiseMin(0), component j
upperOf(par, accv, y, j) ==
  After(ESub(par.acc_max[j], EMul(accv[j], y)), LAMBDA w : IF ELt(w, QZero) THEN QZero ELSE w)

lowerOf(par, accv, y, j) ==
  After(ESub(par.acc_min[j], EMul(accv[j], y)), LAMBDA w : IF ELt(QZero, w) THEN QZero ELSE w)

RECURSIVE minAccel(_, _, _, _, _, _), clampV2(_, _, _, _, _), maxAccel(_, _, _, _, _, _)

\* the minimal allowed acceleration of the reverse pass
minAccel(par, velv, accv, y, j, ret0) ==
  IF j > Len(velv) THEN ret0
  ELSE minAccel(par, velv, accv, y, j + 1,
         IF ELt(eps, velv[j]) THEN stdMax(ret0, EDiv(lowerOf(par, accv, y, j), velv[j]))
         ELSE IF ELt(velv[j], ENeg(eps)) THEN stdMax(ret0, EDiv(upperOf(par, accv, y, j), velv[j]))
         ELSE ret0)

\* the clamp of v2max(i) to the constraints
clampV2(par, velv, accv, j, y) ==
  IF j > Len(velv) THEN y
  ELSE LET y1 == IF ELt(eps, velv[j]) THEN stdMin(y, sq(EDiv(par.vel_max[j], velv[j])))
                 ELSE IF ELt(velv[j], ENeg(eps)) THEN stdMin(y, sq(EDiv(par.vel_min[j], velv[j])))
                 ELSE y
           y2 == After(y1, LAMBDA w :
                   IF ELt(eps, accv[j]) THEN stdMin(w, EDiv(par.acc_max[j], accv[j]))
                   ELSE IF ELt(accv[j], ENeg(eps)) THEN stdMin(w, EDiv(par.acc_min[j], accv[j]))
                   ELSE w)
       IN clampV2(par, velv, accv, j + 1, y2)

\* the maximal allowed acceleration of the forward pass, before the bound by the next ceiling
maxAccel(par, velv, accv, vi2, j, ret0) ==
  IF j > Len(velv) THEN ret0
  ELSE maxAccel(par, velv, accv, vi2, j + 1,
         IF ELt(eps, velv[j]) THEN stdMin(ret0, EDiv(upperOf(par, accv, vi2, j), velv[j]))
         ELSE IF ELt(velv[j], ENeg(eps)) THEN stdMin(ret0, EDiv(lowerOf(par, accv, vi2, j), velv[j]))
         ELSE ret0)

aiOf(par, velv, accv, vi2, v2next, ds) ==
  stdMin(maxAccel(par, velv, accv, vi2, 1, inf),
         EDiv(ESub(v2next, vi2), EMul(QInt(2), ds)))

\* the squared velocity at the end of the new segment
v2mNext(vi2, ai, ds) ==
  IF ai = inf THEN vi2 ELSE stdMax(eps, EAdd(vi2, EMul(EMul(QInt(2), ai), ds)))

\* the sign and finiteness of the segment appended for (vi2, ai): of dt, and of
\* the two control points dt * vi / 2 and dt * (dt * ai + vi) / 2.  With
\* vi = sqrt(vi2) and w = max(eps, vi2 + 2 * ds * ai), the sign of -vi + sqrt(w)
\* is the sign of w - vi2, and dt * ai + vi is sqrt(w) in the second branch
\* of dt.
segmentOf(vi2, ai, ds, si) ==
  LET small == ELt(ai, eps) /\ ELt(ENeg(eps), ai)
      w     == stdMax(eps, EAdd(vi2, EMul(EMul(QInt(2), ds), ai)))
      vi    == ClsOf(vi2)
      dt    == IF small THEN ClsDiv(ClsOf(ds), vi)
               ELSE ClsDiv(ClsOf(ESub(w, vi2)), ClsOf(ai))
      mid   == IF ~small THEN ClsOf(w)
               ELSE IF vi2[1] = 0 THEN ClsMul(dt, ClsOf(ai))
               ELSE ClsOf(EAdd(EMul(ds, ai), vi2))
  IN [dt |-> dt, c1 |-> ClsMul(dt, vi), c2 |-> ClsMul(dt, mid), si |-> si]

reparamStart ==
  /\ rep_pc = "start"
  /\ rep_ds' = EDiv(rep_spline.T, QInt(rep_par.Npart))
  /\ rep_v2max' = [k \in 1..(rep_par.Npart + 1) |->
                     IF k = rep_par.Npart + 1 THEN EMul(rep_par.end_vel, rep_par.end_vel) ELSE ENaN]
  /\ rep_i' = rep_par.Npart
  /\ rep_pc' = "reverse"
  /\ UNCHANGED <<rep_spline, rep_par, rep_v2m, rep_ret>>
  /\ UNCHANGED repRest

\* one iteration of the reverse pass, i : N -> 0
reverseStep ==
  /\ rep_pc = "reverse"
  /\ LET velv == rep_spline.vel[rep_i + 1]
         accv == rep_spline.acc[rep_i + 1]
         y0 == IF rep_i + 1 < rep_par.Npart + 1
                 THEN ESub(rep_v2max[rep_i + 2],
                        EMul(EMul(QInt(2), rep_ds),
                          minAccel(rep_par, velv, accv, rep_v2max[rep_i + 2], 1, ENeg(inf))))
                 ELSE rep_v2max[rep_i + 1]
     IN rep_v2max' = [rep_v2max EXCEPT ![rep_i + 1] = After(y0, LAMBDA w : clampV2(rep_par, velv, accv, 1, w))]
  /\ IF rep_i = 0
       THEN /\ rep_pc' = "forward"
            /\ rep_v2m' = stdMin(EMul(rep_par.start_vel, rep_par.start_vel), rep_v2max'[1])
            /\ rep_i' = 0
       ELSE /\ rep_i' = rep_i - 1
            /\ UNCHANGED <<rep_pc, rep_v2m>>
  /\ UNCHANGED <<rep_spline, rep_par, rep_ds, rep_ret>>
  /\ UNCHANGED repRest

\* one iteration of the forward pass
forwardSegment ==
  /\ rep_pc = "forward" /\ rep_i < rep_par.Npart
  /\ LET ai == aiOf(rep_par, rep_spline.vel[rep_i + 1], rep_spline.acc[rep_i + 1],
                    rep_v2m, rep_v2max[rep_i + 2], rep_ds)
     IN IF ai # inf
          THEN /\ rep_ret' = Append(rep_ret, segmentOf(rep_v2m, ai, rep_ds, rep_i))
               /\ rep_v2m' = v2mNext(rep_v2m, ai, rep_ds)
          ELSE UNCHANGED <<rep_ret, rep_v2m>>
  /\ rep_i' = rep_i + 1
  /\ UNCHANGED <<rep_pc, rep_spline, rep_par, rep_ds, rep_v2max>>
  /\ UNCHANGED repRest

reparamReturn ==
  /\ rep_pc = "forward" /\ rep_i = rep_par.Npart
  /\ rep_pc' = "done"
  /\ UNCHANGED <<rep_spline, rep_par, rep_ds, rep_v2max, rep_i, rep_v2m, rep_ret>>
  /\ UNCHANGED repRest

\* largest partition size N
MaxNpart == 2

\* largest value of a boundary velocity, a velocity and an acceleration of the spline
MaxRepVal == 1

RepVals == {QInt(k) : k \in (-MaxRepVal)..MaxRepVal}

SplineInputs(n) ==
  [T : {QOne}, vel : [1..(n + 1) -> {<<w>> : w \in RepVals}],
   acc : [1..(n + 1) -> {<<w>> : w \in RepVals}]]

ParInputs(n) ==
  [vel_min : {<<QInt(-1)>>}, vel_max : {<<QInt(1)>>},
   acc_min : {<<QInt(-1)>>}, acc_max : {<<QInt(1)>>},
   start_vel : {QInt(k) : k \in 0..MaxRepVal},
   end_vel : {QInt(k) : k \in 0..MaxRepVal} \cup {inf},
   Npart : {n}]

InitReparam ==
  /\ rep_pc = "start"
  /\ \E n \in 1..MaxNpart : rep_spline \in SplineInputs(n) /\ rep_par \in ParInputs(n)
  /\ rep_ds = <<>> /\ rep_v2max = <<>> /\ rep_i = 0 /\ rep_v2m = <<>> /\ rep_ret = <<>>
  /\ lmIdle /\ splIdle /\ manIdle /\ optIdle /\ crvIdle /\ fitIdle /\ bsIdle /\ bunIdle /\ trIdle /\ f1Idle /\ rcIdle

NextReparam ==
  \/ reparamStart
  \/ reverseStep
  \/ forwardSegment
  \/ reparamReturn

SpecReparam == InitReparam /\ [][NextReparam]_vars

\* C14: in the forward pass the squared velocity reached at every grid point
\* i never exceeds the ceiling v2max[i]; the realized start velocity is at most
\* start_vel and the realized end velocity is at most end_vel.
C14_BelowCeiling ==
  rep_pc = "forward" =>
    /\ ~ELt(rep_v2max[rep_i + 1], rep_v2m)
    /\ rep_i = 0 => ~ELt(EMul(rep_par.start_vel, rep_par.start_vel), rep_v2m)
    /\ rep_i = rep_par.Npart => ~ELt(EMul(rep_par.end_vel, rep_par.end_vel), rep_v2m)

\* C15: every segment appended by the forward pass has a finite, strictly
\* positive duration dt and non-negative control-point increments.
C15_Monotone ==
  \A k \in 1..Len(rep_ret) :
    /\ rep_ret[k].dt = "pos"
    /\ rep_ret[k].c1 \in {"pos", "zero"}
    /\ rep_ret[k].c2 \in {"pos", "zero"}

----------------------------------------------------------------------------
(* Curve<G>: end_t_, end_g_, vs_, seg_T0_ and seg_Del_ as sequences; the
   doubles are exact rationals with the infinities and NaN, and a group
   element computed from a NaN is the element of NaN entries *)

ELe(a, b) == ELt(a, b) \/ (a = b /\ a # ENaN)

NaNElem(G) == Tup([i \in 1..Len(Identity(G)) |-> ENaN], Len(Identity(G)))

IsNaNElem(a) == \E i \in 1..Len(a) : a[i][2] = 0

\* the group product and inverse on elements that may be NaN
gMul(G, a, b) ==
  On2(LAMBDA p, q : IF IsNaNElem(p) \/ IsNaNElem(q) THEN NaNElem(G) ELSE composition(G, p, q), a, b)

gInv(G, a) == After(a, LAMBDA p : IF IsNaNElem(p) THEN p ELSE inverse(G, p))

\* Curve()
emptyCurve == [end_t |-> <<>>, end_g |-> <<>>, vs |-> <<>>, seg_T0 |-> <<>>, seg_Del |-> <<>>]

size(c) == Len(c.end_t)

empty(c) == size(c) = 0

t_min(c) == QZero

t_max(c) == IF empty(c) THEN QZero ELSE c.end_t[size(c)]

end(G, c) == IF empty(c) THEN Identity(G) ELSE c.end_g[size(c)]

RECURSIVE findIdxFrom(_, _, _)

findIdxFrom(c, t, istar) ==
  IF istar + 1 < size(c) /\ ELe(c.end_t[istar + 1], t) THEN findIdxFrom(c, t, istar + 1) ELSE istar

\* the index of the segment of t, counted from 0
find_idx(c, t) == findIdxFrom(c, t, 0)

stdClamp(v, lo, hi) == IF ELt(v, lo) THEN lo ELSE IF ELt(hi, v) THEN hi ELSE v

\* the cumulative Bezier basis of degree 3
Mstatic == BezierCum(3)

RECURSIVE csplineFrom(_, _, _, _, _)

csplineFrom(G, v3, uv, j, acc0) ==
  IF j > Len(v3) THEN acc0
  ELSE csplineFrom(G, v3, uv, j + 1,
         composition(G, acc0, exp(G, QVScale(QDot(uv, QMCol(Mstatic, j + 1)), v3[j]))))

\* the value of cspline_eval_diff<3, G>(vs, M, u) with the cumulative Bezier basis
cspline3(G, v3, uq) ==
  On2(LAMBDA vv, w :
        IF w[2] = 0 THEN NaNElem(G)
        ELSE After(monomial_derivatives(3, w)[1], LAMBDA uv : csplineFrom(G, vv, uv, 1, Identity(G))),
      v3, uq)

evalBody(G, c, t) ==
  LET istar == find_idx(c, t)
      ta    == IF istar = 0 THEN QZero ELSE c.end_t[istar]
      T     == ESub(c.end_t[istar + 1], ta)
      Del   == c.seg_Del[istar + 1]
      T0    == c.seg_T0[istar + 1]
      uq    == stdClamp(EAdd(T0, EDiv(EMul(Del, ESub(t, ta)), T)), QZero, QOne)
      g0    == IF istar = 0 THEN Identity(G) ELSE c.end_g[istar]
      g1    == IF ELt(QZero, T0) THEN gMul(G, g0, gInv(G, cspline3(G, c.vs[istar + 1], T0))) ELSE g0
  IN gMul(G, g1, cspline3(G, c.vs[istar + 1], uq))

\* Curve::eval(t) of a non-empty curve, without vel and acc
Curve_eval(G, c, t) == On2(LAMBDA cc, tt : evalBody(G, cc, tt), c, t)

\* the members after the initializer list and the resize, and the Curve constructed
segmentCurve(G, T, v3) ==
  LET c0 == [end_t |-> <<T>>, end_g |-> <<Identity(G)>>, vs |-> <<v3>>,
             seg_T0 |-> <<QZero>>, seg_Del |-> <<QOne>>]
  IN [c0 EXCEPT !.end_g = <<Curve_eval(G, c0, T)>>]

\* what a call gives: an exception, a Curve or a group element
Thrown == [thrown |-> TRUE, curve |-> emptyCurve, value |-> <<>>]

Made(c) == [thrown |-> FALSE, curve |-> c, value |-> <<>>]

Value(a) == [thrown |-> FALSE, curve |-> emptyCurve, value |-> a]

\* Curve(double T, std::array<Tangent, 3> && vs)
CurveArray(G, T, v3) ==
  IF ELe(T, QZero) THEN Thrown ELSE Made(segmentCurve(G, T, v3))

\* Curve(double T, const Rv & vs)
CurveRange(G, T, vr) ==
  IF ELe(T, QZero) THEN Thrown
  ELSE IF Len(vr) # 3 THEN Thrown
  ELSE Made(segmentCurve(G, T, vr))

\* the body-velocity overload throws as the group overload does
ConstantVelocityThrows(G, v, T) ==
  IF ELe(T, QZero) THEN Thrown
  ELSE CurveArray(G, T, After(QVScale(EDiv(T, QInt(3)), v), LAMBDA w : <<w, w, w>>))

\* ConstantVelocity(const Tangent & v, double T)
ConstantVelocityV(G, v, T) ==
  IF ELe(T, QZero) THEN Made(emptyCurve)
  ELSE CurveArray(G, T, After(QVScale(EDiv(T, QInt(3)), v), LAMBDA w : <<w, w, w>>))

\* ConstantVelocity(const G & g, double T)
ConstantVelocityG(G, gb, T) ==
  IF ELe(T, QZero) THEN Thrown
  ELSE ConstantVelocityV(G, QVScale(EDiv(QOne, T), log(G, gb)), T)

FixedCubic(G, gb, va, vb, T) ==
  LET v0 == QVScale(EDiv(T, QInt(3)), va)
      v2 == QVScale(EDiv(T, QInt(3)), vb)
      v1 == log(G, composition(G, composition(G, exp(G, QVNeg(v0)), gb), exp(G, QVNeg(v2))))
  IN CurveArray(G, T, <<v0, v1, v2>>)

\* operator*= without the shift of the appended end times by t_max()
mulAssignNoShift(G, c1, c2) ==
  [end_t   |-> c1.end_t \o c2.end_t,
   end_g   |-> c1.end_g \o Tup([i \in 1..size(c2) |-> gMul(G, end(G, c1), c2.end_g[i])], size(c2)),
   vs      |-> c1.vs \o c2.vs,
   seg_T0  |-> c1.seg_T0 \o c2.seg_T0,
   seg_Del |-> c1.seg_Del \o c2.seg_Del]

\* operator*=: the members of *this afterwards
mulAssign(G, c1, c2) ==
  [end_t   |-> c1.end_t \o Tup([i \in 1..size(c2) |-> EAdd(t_max(c1), c2.end_t[i])], size(c2)),
   end_g   |-> c1.end_g \o Tup([i \in 1..size(c2) |-> gMul(G, end(G, c1), c2.end_g[i])], size(c2)),
   vs      |-> c1.vs \o c2.vs,
   seg_T0  |-> c1.seg_T0 \o c2.seg_T0,
   seg_Del |-> c1.seg_Del \o c2.seg_Del]

\* crop, after the early return
cropBody(G, c, ta, tb) ==
  LET i0    == find_idx(c, ta)
      Nseg0 == find_idx(c, tb) + 1 - i0
      Nseg  == IF Nseg0 >= 2 /\ c.end_t[i0 + Nseg0 - 1] = tb THEN Nseg0 - 1 ELSE Nseg0
      ga    == Curve_eval(G, c, ta)
      gainv == gInv(G, ga)
      end_t == Tup([i \in 1..Nseg |-> IF i = Nseg THEN ESub(tb, ta) ELSE ESub(c.end_t[i0 + i], ta)], Nseg)
      end_g == Tup([i \in 1..Nseg |->
                     IF i = Nseg THEN gMul(G, gainv, Curve_eval(G, c, tb))
                     ELSE gMul(G, gainv, c.end_g[i0 + i])], Nseg)
      \* crop first segment: tta = 0, ttb = end_t_[i0], sa = ta, sb = ttb
      ttb1  == c.end_t[i0 + 1]
      T0a   == EAdd(c.seg_T0[i0 + 1], EDiv(EMul(c.seg_Del[i0 + 1], ESub(ta, QZero)), ESub(ttb1, QZero)))
      Dela  == EMul(c.seg_Del[i0 + 1], EDiv(ESub(ttb1, ta), ESub(ttb1, QZero)))
      T0f   == Tup([i \in 1..Nseg |-> IF i = 1 THEN T0a ELSE c.seg_T0[i0 + i]], Nseg)
      Delf  == Tup([i \in 1..Nseg |-> IF i = 1 THEN Dela ELSE c.seg_Del[i0 + i]], Nseg)
      \* crop last segment: tta = Nseg == 1 ? ta : end_t_[Nseg - 2], ttb = end_t_[Nseg - 1]
      tta2  == IF Nseg = 1 THEN ta ELSE c.end_t[Nseg - 1]
      ttb2  == c.end_t[Nseg]
      T0l   == EAdd(T0f[Nseg], EDiv(EMul(Delf[Nseg], ESub(tta2, tta2)), ESub(ttb2, tta2)))
      Dell  == EMul(Delf[Nseg], EDiv(ESub(tb, tta2), ESub(ttb2, tta2)))
  IN [end_t   |-> end_t,
      end_g   |-> end_g,
      vs      |-> Tup([i \in 1..Nseg |-> c.vs[i0 + i]], Nseg),
      seg_T0  |-> Tup([i \in 1..Nseg |-> IF i = Nseg THEN T0l ELSE T0f[i]], Nseg),
      seg_Del |-> Tup([i \in 1..Nseg |-> IF i = Nseg THEN Dell ELSE Delf[i]], Nseg)]

\* Curve::crop(ta, tb)
crop(G, c, ta, tb) ==
  LET ta1 == stdMax(ta, QZero)
      tb1 == stdMin(tb, t_max(c))
  IN IF ELe(tb1, ta1) THEN emptyCurve
     ELSE CHOOSE res \in {cropBody(G, cc, p, q) : cc \in {c}, p \in {ta1}, q \in {tb1}} : TRUE

\* a call: its name, the duration T and the number n of velocities of an
\* entry point, the bounds ta and tb of crop, the time t and the curve of eval
Call(name, T, n, ta, tb, t, of) ==
  [name |-> name, T |-> T, n |-> n, ta |-> ta, tb |-> tb, t |-> t, of |-> of]

EntryCall(name, T, n) == Call(name, T, n, QZero, QZero, QZero, "")

\* y = <entry point>(...): y is assigned unless the call throws
entryEffect(name, T, n, res) ==
  /\ crv_call' = EntryCall(name, T, n)
  /\ crv_ret' = res
  /\ IF res.thrown
       THEN crv_pc' = "thrown" /\ UNCHANGED crv_y
       ELSE crv_pc' = "use" /\ crv_y' = res.curve
  /\ UNCHANGED <<crv_G, crv_x>>
  /\ UNCHANGED crvRest

\* largest duration T of a segment
MaxT == 2

\* largest number of segments of x
MaxSeg == 2

TInputs == {QInt(k) : k \in (-1)..MaxT}

\* the tangents a, b and c of the inputs, and the group element exp(c)
TanA(G) == IF G = "Rn" THEN <<QInt(1), QInt(0)>> ELSE <<QInt(1), QInt(0), QInt(0)>>

TanB(G) == IF G = "Rn" THEN <<QInt(0), QInt(2)>> ELSE <<QInt(0), QInt(2), QInt(0)>>

TanC(G) == IF G = "Rn" THEN <<QInt(1), QInt(2)>> ELSE <<QInt(1), QInt(2), QInt(1)>>

VsInputs(G) == {<<TanA(G), TanA(G), TanA(G)>>, <<TanA(G), TanB(G), TanC(G)>>}

RangeInputs(G) ==
  {<<TanA(G), TanB(G)>>, <<TanA(G), TanB(G), TanC(G)>>, <<TanA(G), TanB(G), TanC(G), TanA(G)>>}

CurveArrayCall ==
  /\ crv_pc = "use"
  /\ \E T \in TInputs, v3 \in VsInputs(crv_G) :
       entryEffect("CurveArray", T, 3, CurveArray(crv_G, T, v3))

CurveRangeCall ==
  /\ crv_pc = "use"
  /\ \E T \in TInputs, vr \in RangeInputs(crv_G) :
       entryEffect("CurveRange", T, Len(vr), CurveRange(crv_G, T, vr))

ConstantVelocityGCall ==
  /\ crv_pc = "use"
  /\ \E T \in TInputs :
       entryEffect("ConstantVelocityG", T, 3, ConstantVelocityG(crv_G, exp(crv_G, TanC(crv_G)), T))

ConstantVelocityVCall ==
  /\ crv_pc = "use"
  /\ \E T \in TInputs :
       entryEffect("ConstantVelocityV", T, 3, ConstantVelocityV(crv_G, TanB(crv_G), T))

FixedCubicCall ==
  /\ crv_pc = "use"
  /\ \E T \in TInputs :
       entryEffect("FixedCubic", T, 3,
                   FixedCubic(crv_G, exp(crv_G, TanC(crv_G)), TanA(crv_G), TanB(crv_G), T))

\* x *= y
mulAssignCall ==
  /\ crv_pc = "use"
  /\ size(crv_x) + size(crv_y) <= MaxSeg
  /\ crv_x' = mulAssign(crv_G, crv_x, crv_y)
  /\ crv_call' = EntryCall("mulAssign", QZero, 0)
  /\ crv_ret' = Made(emptyCurve)
  /\ UNCHANGED <<crv_pc, crv_G, crv_y>>
  /\ UNCHANGED crvRest

\* x * y: ret = x; ret *= y
mulCall ==
  /\ crv_pc = "use"
  /\ size(crv_x) + size(crv_y) <= MaxSeg
  /\ crv_ret' = Made(mulAssign(crv_G, crv_x, crv_y))
  /\ crv_call' = EntryCall("mul", QZero, 0)
  /\ crv_pc' = "multiplied"
  /\ UNCHANGED <<crv_G, crv_x, crv_y>>
  /\ UNCHANGED crvRest

CropTa == {<<k, 2>> : k \in {-1, 1, 3}} \cup {QInt(k) : k \in 0..(MaxT - 1)}

CropTb == {<<1, 2>>, inf} \cup {QInt(k) : k \in 1..MaxT}

\* y = x.crop(ta, tb)
cropCall ==
  /\ crv_pc = "use"
  /\ \E ta \in CropTa, tb \in CropTb :
       /\ crv_y' = crop(crv_G, crv_x, ta, tb)
       /\ crv_call' = Call("crop", QZero, 0, ta, tb, QZero, "")
       /\ crv_ret' = Made(crv_y')
  /\ crv_pc' = "cropped"
  /\ UNCHANGED <<crv_G, crv_x>>
  /\ UNCHANGED crvRest

EvalTimes == {<<k, 2>> : k \in {-1, 1, 3}} \cup {QInt(k) : k \in 0..MaxT} \cup {QInt(MaxT * MaxSeg + k) : k \in 0..1}

\* x.eval(t) and y.eval(t), on a non-empty curve
evalCall ==
  /\ crv_pc = "use"
  /\ \E of \in {"x", "y"}, t \in EvalTimes :
       LET c == IF of = "x" THEN crv_x ELSE crv_y
       IN /\ ~empty(c)
          /\ crv_ret' = Value(Curve_eval(crv_G, c, t))
          /\ crv_call' = Call("eval", QZero, 0, QZero, QZero, t, of)
  /\ crv_pc' = "evaluated"
  /\ UNCHANGED <<crv_G, crv_x, crv_y>>
  /\ UNCHANGED crvRest

\* x.eval(t) and y.eval(t) on an empty curve: find_idx returns 0 and eval
\* reads end_t_[0], seg_Del_[0], seg_T0_[0] and vs_[0] of empty vectors, so
\* the value is whatever the reads give
evalEmptyCall ==
  /\ crv_pc = "use"
  /\ \E of \in {"x", "y"}, t \in EvalTimes :
       LET c == IF of = "x" THEN crv_x ELSE crv_y
       IN /\ empty(c)
          /\ \E val \in GInputs(crv_G) \cup {NaNElem(crv_G)} : crv_ret' = Value(val)
          /\ crv_call' = Call("eval", QZero, 0, QZero, QZero, t, of)
  /\ crv_pc' = "undefined"
  /\ UNCHANGED <<crv_G, crv_x, crv_y>>
  /\ UNCHANGED crvRest

InitCurve ==
  /\ crv_pc = "use"
  /\ crv_G \in {"Rn", "H"}
  /\ crv_x = emptyCurve /\ crv_y = emptyCurve
  /\ crv_call = EntryCall("Curve", QZero, 0)
  /\ crv_ret = Made(emptyCurve)
  /\ lmIdle /\ splIdle /\ manIdle /\ optIdle /\ repIdle /\ fitIdle /\ bsIdle /\ bunIdle /\ trIdle /\ f1Idle /\ rcIdle

\* the entry points that take a duration T
NextCurveEntry ==
  \/ CurveArrayCall
  \/ CurveRangeCall
  \/ ConstantVelocityGCall
  \/ ConstantVelocityVCall
  \/ FixedCubicCall

SpecCurveEntry == InitCurve /\ [][NextCurveEntry]_vars

\* the methods, on curves of segments made by two of the entry points
NextCurve ==
  \/ CurveArrayCall
  \/ ConstantVelocityVCall
  \/ mulAssignCall
  \/ mulCall
  \/ cropCall
  \/ evalCall
  \/ evalEmptyCall

SpecCurve == InitCurve /\ [][NextCurve]_vars

\* equality of group elements; a NaN element equals nothing
GEq(a, b) == ~IsNaNElem(a) /\ ~IsNaNElem(b) /\ a = b

EntryNames == {"CurveArray", "CurveRange", "ConstantVelocityG", "ConstantVelocityV", "FixedCubic"}

\* C16 as stated: every entry point that takes a duration T signals
\* std::invalid_argument when T <= 0 and produces no Curve, and the range
\* constructor also when the number of velocities differs from 3.
C16_EntryPointsThrow ==
  crv_call.name \in EntryNames =>
    /\ ELe(crv_call.T, QZero) => crv_ret.thrown /\ crv_pc = "thrown"
    /\ crv_call.name = "CurveRange" /\ crv_call.n # 3 => crv_ret.thrown /\ crv_pc = "thrown"

\* C16: both segment constructors, ConstantVelocity with a group target and
\* FixedCubic signal std::invalid_argument when T <= 0 and produce no Curve, the
\* range constructor also when the number of velocities differs from 3;
\* ConstantVelocity with a body velocity returns the empty Curve when T <= 0;
\* every other call returns a Curve of one segment and duration T.
C16_ThrowOrEmpty ==
  crv_call.name \in EntryNames =>
    IF crv_call.name = "ConstantVelocityV" /\ ELe(crv_call.T, QZero)
      THEN ~crv_ret.thrown /\ crv_ret.curve = emptyCurve /\ crv_y = emptyCurve
    ELSE IF ELe(crv_call.T, QZero) \/ crv_call.n # 3
      THEN crv_ret.thrown /\ crv_pc = "thrown"
    ELSE /\ ~crv_ret.thrown /\ crv_y = crv_ret.curve
         /\ size(crv_y) = 1 /\ t_max(crv_y) = crv_call.T

\* FixedCubic has thrown for T = 0
C16_Witness ==
  /\ crv_pc = "thrown" /\ crv_call.name = "FixedCubic" /\ crv_call.T = QZero
  /\ crv_ret.thrown

\* C17: for 0 <= ta < tb <= t_max, crop(ta, tb) returns a curve y with
\* t_max(y) = tb - ta and y(t) = inverse(x(ta)) * x(ta + t) for every t in
\* [0, tb - ta], in whichever segments ta and tb lie; crop with tb <= ta
\* returns the empty curve.
C17_Crop ==
  crv_pc = "cropped" =>
    /\ ELe(crv_call.tb, crv_call.ta) => crv_y = emptyCurve
    /\ ELe(QZero, crv_call.ta) /\ ELt(crv_call.ta, crv_call.tb) /\ ELe(crv_call.tb, t_max(crv_x)) =>
         /\ t_max(crv_y) = ESub(crv_call.tb, crv_call.ta)
         /\ \A t \in EvalTimes :
              ELe(QZero, t) /\ ELe(t, ESub(crv_call.tb, crv_call.ta)) =>
                GEq(Curve_eval(crv_G, crv_y, t),
                    gMul(crv_G, gInv(crv_G, Curve_eval(crv_G, crv_x, crv_call.ta)),
                         Curve_eval(crv_G, crv_x, EAdd(crv_call.ta, t))))

\* the value val of c.eval(t) is that of the clamped time
ClampedAt(c, t, val) ==
  /\ ELe(t, t_min(c)) => GEq(val, Curve_eval(crv_G, c, t_min(c)))
  /\ ELe(t_max(c), t) => GEq(val, end(crv_G, c)) /\ GEq(val, Curve_eval(crv_G, c, t_max(c)))

\* C18: for every non-empty curve, including curves produced by crop, eval(t)
\* equals eval(t_min()) for t <= t_min() and equals end() = eval(t_max()) for
\* t >= t_max().
C18_Clamp ==
  /\ crv_pc = "evaluated" =>
       ClampedAt(IF crv_call.of = "x" THEN crv_x ELSE crv_y, crv_call.t, crv_ret.value)
  /\ crv_pc = "cropped" /\ ~empty(crv_y) =>
       \A t \in EvalTimes : ClampedAt(crv_y, t, Curve_eval(crv_G, crv_y, t))

\* the value of curve c at t, the identity on the empty curve
ValueAt(c, t) == IF empty(c) THEN Identity(crv_G) ELSE Curve_eval(crv_G, c, t)

----------------------------------------------------------------------------
(* fit_spline: the loop over the segments; the coefficients V of the
   one-dimensional fits are any columns *)

\* the cumulative coefficients of segment i: the differences of its K + 1 columns of V
cumCoefsOf(Vm, i, KK) ==
  Tup([k \in 1..KK |-> QVSub(Vm[i * (KK + 1) + 1 + k], Vm[i * (KK + 1) + k])], KK)

RECURSIVE leftLoop(_, _, _, _, _), rightLoop(_, _, _, _, _)

\* for (k = 0; k < mid; ++k) midval = exp(-cum_coefs.col(k)) * midval
leftLoop(G, cc, k, mid, midval) ==
  IF k < mid
    THEN leftLoop(G, cc, k + 1, mid, composition(G, exp(G, QVNeg(cc[k + 1])), midval))
    ELSE midval

\* for (k = K - 1; k > mid; --k) midval = midval * exp(-cum_coefs.col(k))
rightLoop(G, cc, k, mid, midval) ==
  IF k > mid
    THEN rightLoop(G, cc, k - 1, mid, composition(G, midval, exp(G, QVNeg(cc[k + 1]))))
    ELSE midval

RECURSIVE colSum(_, _)

\* the sum of the first n columns
colSum(cc, n) == IF n = 1 THEN cc[1] ELSE QVAdd(colSum(cc, n - 1), cc[n])

\* the middle coefficient as the difference of the logarithms: what is left
\* of inverse(g) * g_next after the other coefficients when the group commutes
midCommuting(G, KK, cc, ga, gnext) ==
  QVSub(log(G, composition(G, inverse(G, ga), gnext)),
        QVSub(colSum(cc, KK), cc[KK \div 2 + 1]))

\* the middle coefficient that makes the segment interpolating
midCoef(G, KK, cc, ga, gnext) ==
  log(G, rightLoop(G, cc, KK - 1, KK \div 2,
           leftLoop(G, cc, 0, KK \div 2, composition(G, inverse(G, ga), gnext))))

\* the cumulative coefficients of the segment from ga to gnext
segmentCoefs(G, KK, cc, ga, gnext) ==
  On2(LAMBDA c0, pair :
        IF KK > 2 THEN [c0 EXCEPT ![KK \div 2 + 1] = midCoef(G, KK, c0, pair[1], pair[2])] ELSE c0,
      cc, <<ga, gnext>>)

\* one iteration of the loop over the segments
fitSegment ==
  /\ fit_pc = "loop" /\ fit_i < Len(fit_gs) - 1
  /\ fit_ret' = Append(fit_ret,
       [dt |-> QSub(fit_ts[fit_i + 2], fit_ts[fit_i + 1]),
        cum_coefs |-> segmentCoefs(fit_G, fit_K, cumCoefsOf(fit_V, fit_i, fit_K),
                                   fit_gs[fit_i + 1], fit_gs[fit_i + 2]),
        g0 |-> fit_gs[fit_i + 1]])
  /\ fit_i' = fit_i + 1
  /\ UNCHANGED <<fit_pc, fit_G, fit_K, fit_ts, fit_gs, fit_V>>
  /\ UNCHANGED fitRest

\* ret.concat_global(gs[N - 1]) and the return
fitReturn ==
  /\ fit_pc = "loop" /\ fit_i = Len(fit_gs) - 1
  /\ fit_ret' = Append(fit_ret, [dt |-> QZero, cum_coefs |-> <<>>, g0 |-> fit_gs[Len(fit_gs)]])
  /\ fit_pc' = "done"
  /\ UNCHANGED <<fit_G, fit_K, fit_ts, fit_gs, fit_V, fit_i>>
  /\ UNCHANGED fitRest

\* largest number N of data points
MaxFitN == 3

\* largest degree K
MaxFitK == 4

\* the K + 1 columns of V of one segment
VSegInputs(G, KK) ==
  {Tup([k \in 1..(KK + 1) |-> IF k % 2 = 1 THEN QVZero(Dof(G)) ELSE TanA(G)], KK + 1),
   Tup([k \in 1..(KK + 1) |-> IF k = 1 THEN TanA(G) ELSE IF k % 2 = 0 THEN TanB(G) ELSE TanC(G)], KK + 1)}

RECURSIVE VInputs(_, _, _)

VInputs(G, KK, n) ==
  IF n = 0 THEN {<<>>}
  ELSE {head \o seg : head \in VInputs(G, KK, n - 1), seg \in VSegInputs(G, KK)}

\* the calls of fit_spline_1d, one for each row of V: the coefficients they
\* return solve a quadratic program and are taken as any columns
fitStart ==
  /\ fit_pc = "start"
  /\ fit_V' \in VInputs(fit_G, fit_K, Len(fit_gs) - 1)
  /\ fit_pc' = "loop"
  /\ UNCHANGED <<fit_G, fit_K, fit_ts, fit_gs, fit_i, fit_ret>>
  /\ UNCHANGED fitRest

InitFit ==
  /\ fit_pc = "start"
  /\ fit_G \in {"Rn", "H"}
  /\ fit_K \in 2..MaxFitK
  /\ \E n \in 2..MaxFitN :
       /\ fit_ts = Tup([i \in 1..n |-> QInt(i - 1)], n)
       /\ fit_gs \in [1..n -> GInputs(fit_G)]
  /\ fit_V = <<>> /\ fit_i = 0 /\ fit_ret = <<>>
  /\ lmIdle /\ splIdle /\ manIdle /\ optIdle /\ repIdle /\ crvIdle /\ bsIdle /\ bunIdle /\ trIdle /\ f1Idle /\ rcIdle

NextFit ==
  \/ fitStart
  \/ fitSegment
  \/ fitReturn

SpecFit == InitFit /\ [][NextFit]_vars

RECURSIVE expProduct(_, _, _)

\* exp(c_k) * ... * exp(c_{K-1}), with k counted from 1
expProduct(G, cc, k) ==
  IF k > Len(cc) THEN Identity(G)
  ELSE composition(G, exp(G, cc[k]), expProduct(G, cc, k + 1))

\* C20: for every segment built by fit_spline with degree K > 2 the ordered
\* product exp(c_0) * ... * exp(c_{K-1}) of its cumulative coefficients equals
\* inverse(g_i) * g_{i+1}, and the segment that starts at g_i ends at g_{i+1}.
C20_Interpolating ==
  fit_K > 2 =>
    \A i \in 1..Len(fit_ret) :
      i < Len(fit_gs) =>
        /\ expProduct(fit_G, fit_ret[i].cum_coefs, 1)
             = composition(fit_G, inverse(fit_G, fit_gs[i]), fit_gs[i + 1])
        /\ fit_ret[i].g0 = fit_gs[i]
        /\ composition(fit_G, fit_ret[i].g0, expProduct(fit_G, fit_ret[i].cum_coefs, 1)) = fit_gs[i + 1]

\* fit_spline has returned two segments of degree 3 on the non-commutative
\* group whose middle coefficients are not what a commuting group would give
C20_Witness ==
  /\ fit_pc = "done" /\ fit_G = "H" /\ fit_K = 3 /\ Len(fit_gs) = 3
  /\ \A i \in 1..2 :
       fit_ret[i].cum_coefs[2]
         # midCommuting(fit_G, fit_K, cumCoefsOf(fit_V, i - 1, fit_K), fit_gs[i], fit_gs[i + 1])

----------------------------------------------------------------------------
(* binary_interval_search on a range of doubles, with the default comparison *)

\* static_cast<intptr_t> of a double: the integer part
FTrunc(a) ==
  After(a, LAMBDA w :
    IF w[2] >= 0 THEN w[1] * Pow2(w[2])
    ELSE IF -w[2] > 30 THEN 0
    ELSE Sgn(w[1]) * (Abs(w[1]) \div Pow2(-w[2])))

\* the interpolation factor alpha between *left and *(rght - 1)
alphaOf(rr, tt, left, rght) ==
  FDiv(FSub(tt, rr[left + 1]), FSub(rr[rght], rr[left + 1]))

\* pivot = left + static_cast<intptr_t>(static_cast<double>(rght - 1 - left) * alpha)
pivotOf(rr, tt, left, rght) ==
  left + FTrunc(FMul(FInt(rght - 1 - left), alphaOf(rr, tt, left, rght)))

\* the value read at position k: past the end of the range it is whatever is there
readAt(rr, k, garbage) == IF k < Len(rr) THEN rr[k + 1] ELSE garbage

\* the early returns: empty range, t before the front, t not before the back
searchEnter ==
  /\ bs_pc = "start"
  /\ IF bs_r = <<>>
       THEN /\ bs_pc' = "done" /\ bs_ret' = Len(bs_r)
            /\ UNCHANGED bs_read
       ELSE IF FLt(bs_t, bs_r[1])
       THEN /\ bs_pc' = "done" /\ bs_ret' = Len(bs_r)
            /\ bs_read' = bs_read \cup {0}
       ELSE IF FLe(bs_r[Len(bs_r)], bs_t)
       THEN /\ bs_pc' = "done" /\ bs_ret' = Len(bs_r) - 1
            /\ bs_read' = bs_read \cup {0, Len(bs_r) - 1}
       ELSE /\ bs_pc' = "loop" /\ bs_ret' = bs_ret
            /\ bs_read' = bs_read \cup {0, Len(bs_r) - 1}
  /\ UNCHANGED <<bs_r, bs_t, bs_left, bs_rght, bs_pivot>>
  /\ UNCHANGED bsRest

\* the values that may lie behind the end of the range
Garbage == {FInt(-1), FInt(3)}

\* one iteration of the while loop
searchIterate ==
  /\ bs_pc = "loop" /\ bs_left + 1 < bs_rght
  /\ \E garbage \in Garbage :
       LET pv  == pivotOf(bs_r, bs_t, bs_left, bs_rght)
           nxt == readAt(bs_r, pv + 1, garbage)
       IN /\ bs_pivot' = pv
          /\ IF FLe(nxt, bs_t)
               THEN /\ bs_left' = pv + 1
                    /\ bs_read' = bs_read \cup {bs_left, bs_rght - 1, pv + 1}
                    /\ UNCHANGED <<bs_rght, bs_pc, bs_ret>>
               ELSE IF FLt(bs_t, bs_r[pv + 1])
               THEN /\ bs_rght' = pv + 1
                    /\ bs_read' = bs_read \cup {bs_left, bs_rght - 1, pv + 1, pv}
                    /\ UNCHANGED <<bs_left, bs_pc, bs_ret>>
               ELSE /\ bs_pc' = "done" /\ bs_ret' = pv
                    /\ bs_read' = bs_read \cup {bs_left, bs_rght - 1, pv + 1, pv}
                    /\ UNCHANGED <<bs_left, bs_rght>>
  /\ UNCHANGED <<bs_r, bs_t>>
  /\ UNCHANGED bsRest

\* the loop condition fails: return pivot
searchReturn ==
  /\ bs_pc = "loop" /\ ~(bs_left + 1 < bs_rght)
  /\ bs_pc' = "done" /\ bs_ret' = bs_pivot
  /\ UNCHANGED <<bs_r, bs_t, bs_left, bs_rght, bs_pivot, bs_read>>
  /\ UNCHANGED bsRest

\* largest length of the range
MaxRange == 4

\* a value whose sum with a small one rounds back to itself
BigVal == Pow2(FBits + 5)

SearchVals == {FInt(-BigVal), FInt(0), FInt(1), FInt(2), FInt(BigVal \div 4)}

Sorted(rr) == \A i \in 1..(Len(rr) - 1) : FLe(rr[i], rr[i + 1])

InitSearch ==
  /\ bs_pc = "start"
  /\ \E n \in 0..MaxRange :
       /\ bs_r \in [1..n -> SearchVals]
       /\ Sorted(bs_r)
       /\ bs_rght = n
  /\ bs_t \in SearchVals
  /\ bs_left = 0 /\ bs_pivot = -1 /\ bs_ret = -1 /\ bs_read = {}
  /\ lmIdle /\ splIdle /\ manIdle /\ optIdle /\ repIdle /\ crvIdle /\ fitIdle /\ bunIdle /\ trIdle /\ f1Idle /\ rcIdle

NextSearch ==
  \/ searchEnter
  \/ searchIterate
  \/ searchReturn

SpecSearch == InitSearch /\ [][NextSearch]_vars

\* C21: binary_interval_search returns end(r) for an empty r and for
\* t < r.front(), end(r) - 1 for t >= r.back(), and otherwise a position it
\* with *it <= t < *(it + 1).
C21_Result ==
  bs_pc = "done" =>
    IF bs_r = <<>> THEN bs_ret = 0
    ELSE IF FLt(bs_t, bs_r[1]) THEN bs_ret = Len(bs_r)
    ELSE IF FLe(bs_r[Len(bs_r)], bs_t) THEN bs_ret = Len(bs_r) - 1
    ELSE /\ bs_ret \in 0..(Len(bs_r) - 2)
         /\ FLe(bs_r[bs_ret + 1], bs_t) /\ FLt(bs_t, bs_r[bs_ret + 2])

\* C29: binary_interval_search never dereferences a position outside the
\* range and never returns the pivot before it has been assigned.
C29_InRange ==
  /\ bs_read \subseteq 0..(Len(bs_r) - 1)
  /\ bs_pc = "done" => bs_ret # -1

----------------------------------------------------------------------------
(* the members of a Curve *)

\* the per-segment arrays of c have one length, the end times are positive
\* and strictly increasing, and every segment is a part [T0, T0 + Del] of [0, 1]
WellFormed(c) ==
  /\ Len(c.end_g) = size(c) /\ Len(c.vs) = size(c)
  /\ Len(c.seg_T0) = size(c) /\ Len(c.seg_Del) = size(c)
  /\ \A i \in 1..size(c) :
       /\ ELt(QZero, c.end_t[i])
       /\ i > 1 => ELt(c.end_t[i - 1], c.end_t[i])
       /\ ELe(QZero, c.seg_T0[i])
       /\ ELt(QZero, c.seg_Del[i])
       /\ ELe(EAdd(c.seg_T0[i], c.seg_Del[i]), QOne)

\* C22: after any sequence of Curve constructions, operator*=, operator* and
\* crop the per-segment arrays have the same length, end_t_ is strictly
\* increasing with positive entries and every segment has 0 <= seg_T0,
\* seg_Del > 0 and seg_T0 + seg_Del <= 1.
C22_Members == WellFormed(crv_x) /\ WellFormed(crv_y)

----------------------------------------------------------------------------
(* the segment indices that eval and find_idx read *)

RECURSIVE findIdxReads(_, _, _)

\* the indices of end_t_ read by the loop of find_idx from istar on
findIdxReads(c, t, istar) ==
  IF istar + 1 < size(c)
    THEN {istar} \cup (IF ELe(c.end_t[istar + 1], t) THEN findIdxReads(c, t, istar + 1) ELSE {})
    ELSE {}

\* the indices of end_t_, end_g_, seg_T0_, seg_Del_ and vs_ read by eval(t)
evalReads(c, t) ==
  LET istar == IF empty(c) THEN 0 ELSE find_idx(c, t)
  IN findIdxReads(c, t, 0) \cup {istar} \cup (IF istar = 0 THEN {} ELSE {istar - 1})

\* C23: eval and find_idx only read segment indices smaller than size(), on
\* every curve of the public interface: the default-constructed curve, the
\* empty curve that crop returns and ConstantVelocity(v, T) with T <= 0 too.
C23_ReadsInside ==
  /\ crv_pc \in {"evaluated", "undefined"} =>
       LET c == IF crv_call.of = "x" THEN crv_x ELSE crv_y
       IN evalReads(c, crv_call.t) \subseteq 0..(size(c) - 1)
  /\ crv_pc = "cropped" =>
       \A t \in EvalTimes : evalReads(crv_y, t) \subseteq 0..(size(crv_y) - 1)

----------------------------------------------------------------------------
(* the optional outputs of cspline_eval_diff *)

\* C24: cspline_eval_diff handles every combination of its optional outputs:
\* when acc is requested and vel is not, the acceleration is computed without
\* reading the value of an empty optional, so the call is never terminated.
C24_OptionalOutputs == spc # "terminate"

----------------------------------------------------------------------------
(* the trust-region radius of optimize *)

\* C25: in optimize Delta stays strictly positive and finite in every one of
\* the 10 iterations, so lambda = 1 / Delta is finite whenever it is computed,
\* also after an iteration whose step a is the zero vector.
C25_DeltaPositive ==
  /\ op_pc \in {"loop", "nonfinite", "done"} => op_Delta[1] > 0
  /\ op_pc # "nonfinite"

----------------------------------------------------------------------------
(* Bundle: several group types in one flat storage *)

\* lie_info<G>::lie_size
lie_size(G) == IF G = "Rn" THEN DofRn ELSE Len(H_Identity)

RepSizes(Gs) == Tup([i \in 1..Len(Gs) |-> lie_size(Gs[i])], Len(Gs))

Dofs(Gs) == Tup([i \in 1..Len(Gs) |-> Dof(Gs[i])], Len(Gs))

RECURSIVE partial_sum(_, _)

\* the sum of the first k entries of xs
partial_sum(xs, k) == IF k = 0 THEN 0 ELSE partial_sum(xs, k - 1) + xs[k]

\* the prefix sums without the leading zero, the last one repeated
arrayPsumInclusive(xs) ==
  Tup([k \in 1..(Len(xs) + 1) |-> partial_sum(xs, IF k > Len(xs) THEN Len(xs) ELSE k)], Len(xs) + 1)

\* ret[0] = 0 followed by the partial sums of x
array_psum(xs) ==
  Tup([k \in 1..(Len(xs) + 1) |-> IF k = 1 THEN 0 ELSE partial_sum(xs, k - 1)], Len(xs) + 1)

RepSizesPsum(Gs) == array_psum(RepSizes(Gs))

DofsPsum(Gs) == array_psum(Dofs(Gs))

\* RepSize and Dof of the Bundle: the back of the prefix sums
BundleRepSize(Gs) == RepSizesPsum(Gs)[Len(Gs) + 1]

BundleDof(Gs) == DofsPsum(Gs)[Len(Gs) + 1]

\* a default-constructed PlainObject or Tangent: n values that are not set
NotSet(n) == Tup([k \in 1..n |-> ENaN], n)

\* len values of the array a from position beg on; outside the array the value is not set
segment(a, beg, len) ==
  Tup([k \in 1..len |-> IF beg + k \in 1..Len(a) THEN a[beg + k] ELSE ENaN], len)

\* the array a with val written from position beg on
withSegment(a, beg, val) ==
  Tup([k \in 1..Len(a) |-> IF k - beg \in 1..Len(val) THEN val[k - beg] ELSE a[k]], Len(a))

\* the matrix A with the square block B written at (beg, beg)
withBlock(A, beg, B) ==
  Tup([i \in 1..Len(A) |->
        Tup([k \in 1..Len(A) |->
              IF i - beg \in 1..Len(B) /\ k - beg \in 1..Len(B) THEN B[i - beg][k - beg] ELSE A[i][k]],
            Len(A))], Len(A))

\* part<i>() of the storage s
part(Gs, s, i) == segment(s, RepSizesPsum(Gs)[i], RepSizes(Gs)[i])

\* ret.part<i>() = val
withPart(Gs, s, i, val) == withSegment(s, RepSizesPsum(Gs)[i], val)

\* a.segment<dof_len>(dof_beg) for member i
dofSegment(Gs, a, i) == segment(a, DofsPsum(Gs)[i], Dofs(Gs)[i])

\* the body of the static_for of each member function, for member i
compositionBody(Gs, s, other, i, rt) ==
  withPart(Gs, rt, i,
    IF Gs[i] = "Rn" THEN QVAdd(part(Gs, s, i), part(Gs, other, i))
    ELSE composition(Gs[i], part(Gs, s, i), part(Gs, other, i)))

inverseBody(Gs, s, i, rt) ==
  withPart(Gs, rt, i,
    IF Gs[i] = "Rn" THEN QVNeg(part(Gs, s, i)) ELSE inverse(Gs[i], part(Gs, s, i)))

logBody(Gs, s, i, rt) ==
  withSegment(rt, DofsPsum(Gs)[i],
    IF Gs[i] = "Rn" THEN part(Gs, s, i) ELSE log(Gs[i], part(Gs, s, i)))

AdBody(Gs, s, i, rt) ==
  withBlock(rt, DofsPsum(Gs)[i],
    IF Gs[i] = "Rn" THEN QMIdentity(Dofs(Gs)[i]) ELSE Ad(Gs[i], part(Gs, s, i)))

expBody(Gs, a, i, rt) ==
  withPart(Gs, rt, i,
    IF Gs[i] = "Rn" THEN dofSegment(Gs, a, i) ELSE exp(Gs[i], dofSegment(Gs, a, i)))

adBody(Gs, a, i, rt) ==
  IF Gs[i] = "Rn" THEN rt
  ELSE withBlock(rt, DofsPsum(Gs)[i], ad(Gs[i], dofSegment(Gs, a, i)))

dr_expBody(Gs, a, i, rt) ==
  withBlock(rt, DofsPsum(Gs)[i],
    IF Gs[i] = "Rn" THEN QMIdentity(Dofs(Gs)[i]) ELSE dr_exp(Gs[i], dofSegment(Gs, a, i)))

dr_expinvBody(Gs, a, i, rt) ==
  withBlock(rt, DofsPsum(Gs)[i],
    IF Gs[i] = "Rn" THEN QMIdentity(Dofs(Gs)[i]) ELSE dr_expinv(Gs[i], dofSegment(Gs, a, i)))

\* ret before the static_for: a matrix is set to zero, a PlainObject or Tangent is not set
retBefore(op, Gs) ==
  IF op \in {"Ad", "ad", "dr_exp", "dr_expinv"} THEN QMZero(BundleDof(Gs))
  ELSE IF op = "log" THEN NotSet(BundleDof(Gs))
  ELSE NotSet(BundleRepSize(Gs))

bodyOf(op, Gs, s, other, i, rt) ==
  CASE op = "composition" -> compositionBody(Gs, s, other, i, rt)
    [] op = "inverse"     -> inverseBody(Gs, s, i, rt)
    [] op = "log"         -> logBody(Gs, s, i, rt)
    [] op = "Ad"          -> AdBody(Gs, s, i, rt)
    [] op = "exp"         -> expBody(Gs, other, i, rt)
    [] op = "ad"          -> adBody(Gs, other, i, rt)
    [] op = "dr_exp"      -> dr_expBody(Gs, other, i, rt)
    [] op = "dr_expinv"   -> dr_expinvBody(Gs, other, i, rt)

RECURSIVE static_for(_, _, _, _, _, _)

\* (f(0), f(1), ..., f(sizeof...(_Gs) - 1)) from member i on
static_for(op, Gs, s, other, i, rt) ==
  IF i > Len(Gs) THEN rt
  ELSE static_for(op, Gs, s, other, i + 1,
         CHOOSE res \in {bodyOf(op, Gs, s, other, i, w) : w \in {rt}} : TRUE)

\* a call of the member function op on the Bundle
memberCall(op) ==
  /\ bun_pc = "ready"
  /\ bun_op' = op
  /\ bun_ret' = static_for(op, bun_Gs, bun_s, bun_arg, 1, retBefore(op, bun_Gs))
  /\ bun_pc' = "done"
  /\ UNCHANGED <<bun_Gs, bun_s, bun_arg>>
  /\ UNCHANGED bunRest

\* largest number of members of a Bundle
MaxMembers == 3

RECURSIVE Storages(_, _, _)

\* the storages of the first n members, each member one of two elements of
\* its type: the first and the third or, with other set, the second and the third
Storages(Gs, n, other) ==
  IF n = 0 THEN {<<>>}
  ELSE {head \o el : head \in Storages(Gs, n - 1, other),
                     el \in {IF other THEN TanB(Gs[n]) ELSE TanA(Gs[n]), TanC(Gs[n])}}

InitBundle ==
  /\ bun_pc = "ready"
  /\ \E n \in 1..MaxMembers : bun_Gs \in [1..n -> {"Rn", "H"}]
  /\ bun_s \in Storages(bun_Gs, Len(bun_Gs), FALSE)
  /\ bun_arg \in Storages(bun_Gs, Len(bun_Gs), TRUE)
  /\ bun_op = "" /\ bun_ret = <<>>
  /\ lmIdle /\ splIdle /\ manIdle /\ optIdle /\ repIdle /\ crvIdle /\ fitIdle /\ bsIdle /\ trIdle /\ f1Idle /\ rcIdle

NextBundle ==
  \/ memberCall("composition")
  \/ memberCall("inverse")
  \/ memberCall("log")
  \/ memberCall("Ad")
  \/ memberCall("exp")
  \/ memberCall("ad")
  \/ memberCall("dr_exp")
  \/ memberCall("dr_expinv")

SpecBundle == InitBundle /\ [][NextBundle]_vars

\* the offsets are the prefix sums of the sizes: the parts are disjoint and cover [0, total)
IsLayout(sizes, psum) ==
  /\ Len(psum) = Len(sizes) + 1 /\ psum[1] = 0
  /\ \A i \in 1..Len(sizes) : psum[i + 1] = psum[i] + sizes[i]
  /\ \A k \in 0..(psum[Len(sizes) + 1] - 1) :
       \E i \in 1..Len(sizes) :
         /\ psum[i] <= k /\ k < psum[i] + sizes[i]
         /\ \A m \in 1..Len(sizes) : psum[m] <= k /\ k < psum[m] + sizes[m] => m = i

\* the slice of the array a that belongs to member i when the sizes are sizes
SliceOf(a, sizes, i) ==
  Tup([k \in 1..sizes[i] |-> a[partial_sum(sizes, i - 1) + k]], sizes[i])

\* A is block-diagonal with the matrix blockOf(i) of member i in block i
IsBlockDiagonal(A, sizes, blockOf(_)) ==
  /\ Len(A) = partial_sum(sizes, Len(sizes))
  /\ \A i \in 1..Len(sizes), m \in 1..Len(sizes) :
       \A p \in 1..sizes[i], q \in 1..sizes[m] :
         A[partial_sum(sizes, i - 1) + p][partial_sum(sizes, m - 1) + q]
           = IF i = m THEN blockOf(i)[p][q] ELSE QZero

\* the element and the tangent of member i in the storage and in the argument
ElementOf(i) == SliceOf(bun_s, RepSizes(bun_Gs), i)

OtherOf(i) == SliceOf(bun_arg, RepSizes(bun_Gs), i)

TangentOf(i) == SliceOf(bun_arg, Dofs(bun_Gs), i)

\* C26: in a Bundle the storage offsets and tangent offsets are the prefix
\* sums of the members' RepSize and Dof, so the parts are disjoint and cover
\* [0, RepSize) and [0, Dof); composition, inverse, log and exp act member by
\* member on those parts, and Ad, ad, dr_exp and dr_expinv are block-diagonal
\* with the member's matrix in each diagonal block and zeros elsewhere.
C26_Bundle ==
  bun_pc \in {"ready", "done"} =>
    /\ IsLayout(RepSizes(bun_Gs), RepSizesPsum(bun_Gs))
    /\ IsLayout(Dofs(bun_Gs), DofsPsum(bun_Gs))
    /\ Len(bun_s) = BundleRepSize(bun_Gs)
    /\ bun_pc = "done" =>
         CASE bun_op = "composition" ->
                /\ Len(bun_ret) = BundleRepSize(bun_Gs)
                /\ \A i \in 1..Len(bun_Gs) :
                     SliceOf(bun_ret, RepSizes(bun_Gs), i) = composition(bun_Gs[i], ElementOf(i), OtherOf(i))
           [] bun_op = "inverse" ->
                /\ Len(bun_ret) = BundleRepSize(bun_Gs)
                /\ \A i \in 1..Len(bun_Gs) :
                     SliceOf(bun_ret, RepSizes(bun_Gs), i) = inverse(bun_Gs[i], ElementOf(i))
           [] bun_op = "log" ->
                /\ Len(bun_ret) = BundleDof(bun_Gs)
                /\ \A i \in 1..Len(bun_Gs) :
                     SliceOf(bun_ret, Dofs(bun_Gs), i) = log(bun_Gs[i], ElementOf(i))
           [] bun_op = "exp" ->
                /\ Len(bun_ret) = BundleRepSize(bun_Gs)
                /\ \A i \in 1..Len(bun_Gs) :
                     SliceOf(bun_ret, RepSizes(bun_Gs), i) = exp(bun_Gs[i], TangentOf(i))
           [] bun_op = "Ad" ->
                IsBlockDiagonal(bun_ret, Dofs(bun_Gs), LAMBDA i : Ad(bun_Gs[i], ElementOf(i)))
           [] bun_op = "ad" ->
                IsBlockDiagonal(bun_ret, Dofs(bun_Gs), LAMBDA i : ad(bun_Gs[i], TangentOf(i)))
           [] bun_op = "dr_exp" ->
                IsBlockDiagonal(bun_ret, Dofs(bun_Gs), LAMBDA i : dr_exp(bun_Gs[i], TangentOf(i)))
           [] bun_op = "dr_expinv" ->
                IsBlockDiagonal(bun_ret, Dofs(bun_Gs), LAMBDA i : dr_expinv(bun_Gs[i], TangentOf(i)))

\* Ad was called on a Bundle of a vector, a non-commutative member and a
\* vector, and the block of the middle member is not the identity
C26_Witness ==
  /\ bun_pc = "done" /\ bun_op = "Ad"
  /\ bun_Gs = <<"Rn", "H", "Rn">>
  /\ bun_ret # QMIdentity(BundleDof(bun_Gs))
  /\ bun_ret[DofRn + 3][DofRn + 1] # QZero

----------------------------------------------------------------------------
(* StaticMatrix<_Scalar, _Rows, _Cols>::transpose *)

\* StaticMatrix(): _Rows rows of _Cols zeros
StaticMatrixZero(Rows, Cols) == Tup([i \in 1..Rows |-> Tup([k \in 1..Cols |-> 0], Cols)], Rows)

\* ret[row][col] = val on the rows-by-cols array of arrays A, rows and columns
\* counted from 0: inside the arrays it sets the element; a column index past
\* the row lands in the following row of the contiguous storage when aliased
\* says so, and any other write outside leaves the elements as they are
writeElem(A, row, col, val, aliased) ==
  LET Rows == Len(A)
      Cols == Len(A[1])
      flat == row * Cols + col
      tr   == IF row < Rows /\ col < Cols THEN row
              ELSE IF aliased /\ flat < Rows * Cols THEN flat \div Cols ELSE Rows
      tc   == IF row < Rows /\ col < Cols THEN col ELSE flat % Cols
  IN Tup([i \in 1..Rows |->
           Tup([k \in 1..Cols |-> IF i - 1 = tr /\ k - 1 = tc THEN val ELSE A[i][k]], Cols)], Rows)

\* StaticMatrix<_Scalar, _Rows, _Cols> ret;
transposeEnter ==
  /\ tr_pc = "start"
  /\ tr_ret' = StaticMatrixZero(tr_Rows, tr_Cols)
  /\ tr_i' = 0 /\ tr_j' = 0
  /\ tr_pc' = "loop"
  /\ UNCHANGED <<tr_Rows, tr_Cols, tr_m, tr_out>>
  /\ UNCHANGED trRest

\* ret[j][i] = operator[](i)[j]; and the step of the two loops
transposeWrite ==
  /\ tr_pc = "loop" /\ tr_i < tr_Rows
  /\ \E aliased \in BOOLEAN :
       tr_ret' = writeElem(tr_ret, tr_j, tr_i, tr_m[tr_i + 1][tr_j + 1], aliased)
  /\ tr_out' = IF tr_j < tr_Rows /\ tr_i < tr_Cols THEN tr_out ELSE tr_out \cup {<<tr_j, tr_i>>}
  /\ IF tr_j + 1 < tr_Cols
       THEN tr_j' = tr_j + 1 /\ tr_i' = tr_i
       ELSE tr_j' = 0 /\ tr_i' = tr_i + 1
  /\ UNCHANGED <<tr_pc, tr_Rows, tr_Cols, tr_m>>
  /\ UNCHANGED trRest

\* return ret;
transposeReturn ==
  /\ tr_pc = "loop" /\ tr_i = tr_Rows
  /\ tr_pc' = "done"
  /\ UNCHANGED <<tr_Rows, tr_Cols, tr_m, tr_ret, tr_i, tr_j, tr_out>>
  /\ UNCHANGED trRest

\* largest number of rows and of columns
MaxDim == 3

\* largest entry added to the position code of an element
MaxEntry == 3

InitTranspose ==
  /\ tr_pc = "start"
  /\ tr_Rows \in 1..MaxDim /\ tr_Cols \in 1..MaxDim
  /\ \E base \in 1..MaxEntry :
       tr_m = Tup([i \in 1..tr_Rows |-> Tup([k \in 1..tr_Cols |-> base + MaxDim * i + k], tr_Cols)], tr_Rows)
  /\ tr_ret = <<>> /\ tr_i = 0 /\ tr_j = 0 /\ tr_out = {}
  /\ lmIdle /\ splIdle /\ manIdle /\ optIdle /\ repIdle /\ crvIdle /\ fitIdle /\ bsIdle /\ bunIdle /\ f1Idle /\ rcIdle

NextTranspose ==
  \/ transposeEnter
  \/ transposeWrite
  \/ transposeReturn

SpecTranspose == InitTranspose /\ [][NextTranspose]_vars

\* C27: transpose returns the transpose for every shape _Rows x _Cols: the
\* result has _Cols rows and _Rows columns, result[j][i] = m[i][j], and no
\* element outside the result is written.
C27_Transposed ==
  /\ tr_out = {}
  /\ tr_pc = "done" =>
       /\ Len(tr_ret) = tr_Cols
       /\ \A k \in 1..Len(tr_ret) : Len(tr_ret[k]) = tr_Rows
       /\ \A i \in 1..tr_Rows, k \in 1..tr_Cols :
            k <= Len(tr_ret) /\ i <= Len(tr_ret[k]) /\ tr_ret[k][i] = tr_m[i][k]

----------------------------------------------------------------------------
(* fit_spline_1d: the rows and columns of the constraint matrix A *)

\* spline_specs::NoConstraints<G, K>
NoConstraints(KK) ==
  [name |-> "NoConstraints", Degree |-> KK, OptDeg |-> -1, InnCnt |-> KK - 1,
   LeftDeg |-> <<>>, RghtDeg |-> <<>>]

PiecewiseConstant == NoConstraints(0)

PiecewiseLinear == NoConstraints(1)

\* spline_specs::FixedDerCubic<G, P1, P2>
FixedDerCubic(P1, P2) ==
  [name |-> "FixedDerCubic", Degree |-> 3, OptDeg |-> -1, InnCnt |-> 2,
   LeftDeg |-> <<P1>>, RghtDeg |-> <<P2>>]

\* spline_specs::MinDerivative<G, K, O, P>
MinDerivative(KK, O, P) ==
  [name |-> "MinDerivative", Degree |-> KK, OptDeg |-> O, InnCnt |-> P,
   LeftDeg |-> Tup([i \in 1..(P - 1) |-> i], P - 1),
   RghtDeg |-> Tup([i \in 1..(P - 1) |-> i], P - 1)]

N_coefOf(ss, n) == (ss.Degree + 1) * n

\* the number of rows without the rows of the derivative continuity
N_eqNoContinuity(ss, n) ==
  Len(ss.LeftDeg) + n + (IF ss.InnCnt >= 0 THEN n ELSE 0) + Len(ss.RghtDeg)

N_eqOf(ss, n) ==
  Len(ss.LeftDeg) + n + (IF ss.InnCnt >= 0 THEN n ELSE 0)
    + (IF ss.InnCnt > 0 THEN (n - 1) * ss.InnCnt ELSE 0) + Len(ss.RghtDeg)

\* the columns j = 0 .. K of the coefficients of interval i, in row
rowOf(ss, row, i) == {<<row, i * (ss.Degree + 1) + j>> : j \in 0..ss.Degree}

\* the sizes, the assertion N_coef >= N_eq and the allocation of A and b
fit1dEnter ==
  /\ f1_pc = "start"
  /\ f1_pc' = IF N_coefOf(f1_ss, f1_N) >= N_eqOf(f1_ss, f1_N) THEN "rows" ELSE "assert_failed"
  /\ f1_M' = 0 /\ f1_i' = 0 /\ f1_A' = {} /\ f1_b' = {}
  /\ UNCHANGED <<f1_ss, f1_N>>
  /\ UNCHANGED f1Rest

\* the number of iterations before the second, the third and the fourth loop
BeforeValue == Len(f1_ss.LeftDeg)

BeforeContinuity == BeforeValue + f1_N

BeforeRght == BeforeContinuity + (f1_N - 1)

\* curve beg derivative constraints: one iteration
leftRow ==
  /\ f1_pc = "rows" /\ f1_i < BeforeValue
  /\ f1_A' = f1_A \cup rowOf(f1_ss, f1_M, 0)
  /\ f1_b' = f1_b \cup {f1_M}
  /\ f1_M' = f1_M + 1
  /\ f1_i' = f1_i + 1
  /\ UNCHANGED <<f1_pc, f1_ss, f1_N>>
  /\ UNCHANGED f1Rest

\* interval beg + end value constraint: one iteration
valueRows ==
  /\ f1_pc = "rows" /\ BeforeValue <= f1_i /\ f1_i < BeforeContinuity
  /\ LET i == f1_i - BeforeValue
     IN IF f1_ss.InnCnt >= 0
          THEN /\ f1_A' = f1_A \cup rowOf(f1_ss, f1_M, i) \cup rowOf(f1_ss, f1_M + 1, i)
               /\ f1_b' = f1_b \cup {f1_M, f1_M + 1}
               /\ f1_M' = f1_M + 2
          ELSE /\ f1_A' = f1_A \cup rowOf(f1_ss, f1_M, i)
               /\ f1_b' = f1_b \cup {f1_M}
               /\ f1_M' = f1_M + 1
  /\ f1_i' = f1_i + 1
  /\ UNCHANGED <<f1_pc, f1_ss, f1_N>>
  /\ UNCHANGED f1Rest

\* inner derivative continuity constraint: one iteration of the loop over k,
\* with its rows for d = 1 .. InnCnt
continuityRows ==
  /\ f1_pc = "rows" /\ BeforeContinuity <= f1_i /\ f1_i < BeforeRght
  /\ LET k  == f1_i - BeforeContinuity
         dd == IF f1_ss.InnCnt > 0 THEN f1_ss.InnCnt ELSE 0
     IN /\ f1_A' = f1_A \cup UNION {rowOf(f1_ss, f1_M + e - 1, k) \cup rowOf(f1_ss, f1_M + e - 1, k + 1) :
                                      e \in 1..dd}
        /\ f1_b' = f1_b \cup {f1_M + e - 1 : e \in 1..dd}
        /\ f1_M' = f1_M + dd
  /\ f1_i' = f1_i + 1
  /\ UNCHANGED <<f1_pc, f1_ss, f1_N>>
  /\ UNCHANGED f1Rest

\* curve end derivative constraints: one iteration
rghtRow ==
  /\ f1_pc = "rows" /\ BeforeRght <= f1_i /\ f1_i < BeforeRght + Len(f1_ss.RghtDeg)
  /\ f1_A' = f1_A \cup rowOf(f1_ss, f1_M, f1_N - 1)
  /\ f1_b' = f1_b \cup {f1_M}
  /\ f1_M' = f1_M + 1
  /\ f1_i' = f1_i + 1
  /\ UNCHANGED <<f1_pc, f1_ss, f1_N>>
  /\ UNCHANGED f1Rest

\* after the loops: the assertion N_eq == N_coef when nothing is optimized, and the solve
fit1dSolve ==
  /\ f1_pc = "rows" /\ f1_i = BeforeRght + Len(f1_ss.RghtDeg)
  /\ f1_pc' = IF f1_ss.OptDeg < 0 /\ N_eqOf(f1_ss, f1_N) # N_coefOf(f1_ss, f1_N)
                THEN "assert_failed" ELSE "done"
  /\ UNCHANGED <<f1_ss, f1_N, f1_M, f1_A, f1_b, f1_i>>
  /\ UNCHANGED f1Rest

\* largest number N of intervals
MaxIntervals == 4

\* the specifications of spline_specs, MinDerivative with the degrees 5 and 6 and the default 6, 3, 3
SpecInputs ==
  {PiecewiseConstant, PiecewiseLinear} \cup {FixedDerCubic(P1, P2) : P1, P2 \in 1..2}
    \cup {MinDerivative(KK, 3, 3) : KK \in 5..6}

InitFit1d ==
  /\ f1_pc = "start"
  /\ f1_ss \in SpecInputs
  /\ f1_N \in 1..MaxIntervals
  /\ f1_M = 0 /\ f1_A = {} /\ f1_b = {} /\ f1_i = 0
  /\ lmIdle /\ splIdle /\ manIdle /\ optIdle /\ repIdle /\ crvIdle /\ fitIdle /\ bsIdle /\ bunIdle /\ trIdle /\ rcIdle

NextFit1d ==
  \/ fit1dEnter
  \/ leftRow
  \/ valueRows
  \/ continuityRows
  \/ rghtRow
  \/ fit1dSolve

SpecFit1d == InitFit1d /\ [][NextFit1d]_vars

\* C28: in fit_spline_1d, for N >= 1 intervals, the row counter M ends at
\* N_eq, every written row index is below N_eq and every column index below
\* N_coef, and the asserted relations hold: N_eq = N_coef for
\* PiecewiseConstant, PiecewiseLinear and FixedDerCubic, N_coef >= N_eq for
\* MinDerivative.
C28_RowsAndColumns ==
  f1_pc # "idle" =>
    /\ f1_pc # "assert_failed"
    /\ \A e \in f1_A : e[1] \in 0..(N_eqOf(f1_ss, f1_N) - 1) /\ e[2] \in 0..(N_coefOf(f1_ss, f1_N) - 1)
    /\ \A row \in f1_b : row \in 0..(N_eqOf(f1_ss, f1_N) - 1)
    /\ f1_pc = "done" =>
         /\ f1_M = N_eqOf(f1_ss, f1_N)
         /\ f1_b = 0..(f1_M - 1)
         /\ {e[1] : e \in f1_A} = 0..(f1_M - 1)
    /\ f1_ss.name \in {"NoConstraints", "FixedDerCubic"} =>
         N_eqOf(f1_ss, f1_N) = N_coefOf(f1_ss, f1_N)
    /\ f1_ss.name = "MinDerivative" => N_coefOf(f1_ss, f1_N) >= N_eqOf(f1_ss, f1_N)

\* fit_spline_1d has built the 12 rows of a cubic spline through 3 intervals
C28_Witness ==
  /\ f1_pc = "done" /\ f1_ss = FixedDerCubic(2, 2) /\ f1_N = 3
  /\ f1_M = 12 /\ <<11, 11>> \in f1_A

----------------------------------------------------------------------------
(* reparameterize_curve on a curve ConstantVelocity(v, T) of R^1 *)

PInf == [k |-> "pinf", v |-> FZero]

\* a < b for doubles that are finite or +infinity
ieLt(a, b) == a.k = "num" /\ (b.k = "pinf" \/ FLt(a.v, b.v))

\* std::min(a, b) == (b < a) ? b : a
ieMin(a, b) == IF ieLt(b, a) THEN b ELSE a

\* std::max(a, b) == (a < b) ? b : a
ieMax(a, b) == IF ieLt(a, b) THEN b ELSE a

\* a - b and a * b for a finite b (b > 0 in the product)
ieMinus(a, b) == IF a.k = "pinf" THEN PInf ELSE Num(FSub(a.v, b))

ieTimes(b, a) == IF a.k = "pinf" THEN PInf ELSE Num(FMul(b, a.v))

\* eps = 100 * std::numeric_limits<double>::epsilon()
curveEps == FMul(FInt(100), FEps)

\* Curve::ConstantVelocity(v, T).t_max(): the curve is empty when T <= 0
curveTmax(c) == IF c.T <= 0 THEN FZero ELSE FInt(c.T)

\* the body velocity that curve.eval(s, vel, acc) reports on ConstantVelocity(v, T): v
curveVel(c, s) == c.v

\* the body acceleration that curve.eval(s, vel, acc) reports on ConstantVelocity(v, T): 0
curveAcc(c, s) == FZero

\* maximal velocity for a given s
ds_bound(in, state) ==
  LET w == curveVel(in.curve, state[1])
  IN IF FLt(curveEps, w) THEN ieMin(PInf, Num(FDiv(in.vel_max, w)))
     ELSE IF FLt(w, FNeg(curveEps)) THEN ieMin(PInf, Num(FDiv(in.vel_min, w)))
     ELSE PInf

\* acceleration bounds <<min_d2s, max_d2s>> for a given s, ds
d2s_bound(in, state) ==
  LET w     == curveVel(in.curve, state[1])
      a     == curveAcc(in.curve, state[1])
      upper == FSub(in.acc_max, FMul(FMul(a, state[2]), state[2]))
      lower == FSub(in.acc_min, FMul(FMul(a, state[2]), state[2]))
      max0  == Num(in.max_accel)
      min0  == Num(FNeg(in.max_accel))
  IN IF FLt(curveEps, w)
       THEN <<ieMax(min0, Num(FDiv(lower, w))).v, ieMin(max0, Num(FDiv(upper, w))).v>>
     ELSE IF FLt(w, FNeg(curveEps))
       THEN <<ieMax(min0, Num(FDiv(upper, w))).v, ieMin(max0, Num(FDiv(lower, w))).v>>
     ELSE <<min0.v, max0.v>>

\* euler::do_step for the system (s, ds)' = (ds, acl): state += dt * deriv
do_step(state, acl, dt) == <<FAdd(state[1], FMul(dt, state[2])), FAdd(state[2], FMul(dt, acl))>>

\* u = std::min<double>(u_max, std::max(u_min, alpha * h_val))
uOf(in, state, h_val) ==
  LET bnd == d2s_bound(in, state)
  IN ieMin(Num(bnd[2]), ieMax(Num(bnd[1]), ieTimes(in.alpha, h_val))).v

\* t = 0, x = (0, 1), empty svec and tvec
reparamCurveEnter ==
  /\ rc_pc = "start"
  /\ rc_pc' = "main"
  /\ rc_t' = FZero
  /\ rc_x' = <<FZero, FOne>>
  /\ rc_svec' = <<>> /\ rc_tvec' = <<>>
  /\ UNCHANGED <<rc_in, rc_x_lookahead, rc_h_val, rc_k>>
  /\ UNCHANGED rcRest

\* while (x.x() < curve.t_max()): record t and s and start the look-ahead
mainLoopRecord ==
  /\ rc_pc = "main" /\ FLt(rc_x[1], curveTmax(rc_in.curve))
  /\ rc_tvec' = Append(rc_tvec, rc_t)
  /\ rc_svec' = Append(rc_svec, rc_x[1])
  /\ rc_x_lookahead' = rc_x
  /\ rc_h_val' = PInf
  /\ rc_k' = 0
  /\ rc_pc' = "look"
  /\ UNCHANGED <<rc_in, rc_t, rc_x>>
  /\ UNCHANGED rcRest

lookaheadCondition ==
  FLt(rc_x_lookahead[1], curveTmax(rc_in.curve)) /\ FLt(rc_in.min_v, rc_x_lookahead[2])

\* one iteration of the look-ahead loop
lookaheadStep ==
  /\ rc_pc = "look" /\ lookaheadCondition
  /\ rc_h_val' = ieMin(rc_h_val, ieMinus(ds_bound(rc_in, rc_x_lookahead), rc_x_lookahead[2]))
  /\ rc_x_lookahead' = do_step(rc_x_lookahead, d2s_bound(rc_in, rc_x_lookahead)[1], rc_in.dt)
  /\ rc_k' = rc_k + 1
  /\ UNCHANGED <<rc_pc, rc_in, rc_t, rc_x, rc_svec, rc_tvec>>
  /\ UNCHANGED rcRest

\* after the look-ahead: the step of x with the acceleration u
mainLoopStep ==
  /\ rc_pc = "look" /\ ~lookaheadCondition
  /\ LET xn == do_step(rc_x, uOf(rc_in, rc_x, rc_h_val), rc_in.dt)
     IN rc_x' = <<xn[1], ieMax(Num(rc_in.min_v), Num(xn[2])).v>>
  /\ rc_t' = FAdd(rc_t, rc_in.dt)
  /\ rc_pc' = "main"
  /\ UNCHANGED <<rc_in, rc_x_lookahead, rc_h_val, rc_k, rc_svec, rc_tvec>>
  /\ UNCHANGED rcRest

\* after the main loop: the last t and s, and the return of (tvec, svec)
reparamCurveReturn ==
  /\ rc_pc = "main" /\ ~FLt(rc_x[1], curveTmax(rc_in.curve))
  /\ rc_tvec' = Append(rc_tvec, rc_t)
  /\ rc_svec' = Append(rc_svec, rc_x[1])
  /\ rc_pc' = "done"
  /\ UNCHANGED <<rc_in, rc_t, rc_x, rc_x_lookahead, rc_h_val, rc_k>>
  /\ UNCHANGED rcRest

\* largest duration T of the curve
MaxTmax == 2

\* 2^(-20), a positive double far below the spacing of the doubles near 1
Tiny == FNorm(1, -20)

CurveInputs == {[v |-> w, T |-> T] : w \in {FInt(-1), FZero, FOne}, T \in 0..MaxTmax}

RcInputs ==
  {[curve |-> c, vel_min |-> FNeg(vmax), vel_max |-> vmax,
    acc_min |-> FInt(-8), acc_max |-> FInt(8),
    dt |-> dt, min_v |-> mv, alpha |-> al, max_accel |-> ma] :
     c \in CurveInputs, vmax \in {FRat(1, 4), FInt(2)}, dt \in {FRat(1, 4), FRat(1, 2)},
     mv \in {Tiny, FRat(1, 8), FInt(2)}, al \in {FOne, FInt(16)}, ma \in {FRat(1, 2), FInt(4)}}

InitReparamCurve ==
  /\ rc_pc = "start"
  /\ rc_in \in RcInputs
  /\ rc_t = FZero /\ rc_x = <<>> /\ rc_x_lookahead = <<>> /\ rc_h_val = <<>> /\ rc_k = 0
  /\ rc_svec = <<>> /\ rc_tvec = <<>>
  /\ lmIdle /\ splIdle /\ manIdle /\ optIdle /\ repIdle /\ crvIdle /\ fitIdle /\ bsIdle /\ bunIdle /\ trIdle /\ f1Idle

NextReparamCurve ==
  \/ reparamCurveEnter
  \/ mainLoopRecord
  \/ lookaheadStep
  \/ mainLoopStep
  \/ reparamCurveReturn

SpecReparamCurve == InitReparamCurve /\ [][NextReparamCurve]_vars

\* dt * min(min_v, 1)
leastAdvance == FMul(rc_in.dt, ieMin(Num(rc_in.min_v), Num(FOne)).v)

\* C30: with dt > 0 and min_v > 0, every iteration of the main loop and of
\* the look-ahead loop of reparameterize_curve advances s by at least
\* dt * min(min_v, 1) (so that both loops end), the recorded s-values are
\* strictly increasing, and tvec and svec have the same length.
C30_Advances ==
  rc_pc \in {"main", "look", "done"} =>
    /\ Len(rc_tvec) = Len(rc_svec)
    /\ \A i \in 1..(Len(rc_svec) - 1) : FLt(rc_svec[i], rc_svec[i + 1])
    /\ rc_pc = "main" /\ Len(rc_svec) > 0 =>
         FLe(leastAdvance, FSub(rc_x[1], rc_svec[Len(rc_svec)]))
    /\ rc_pc = "look" =>
         FLe(FMul(FInt(rc_k), leastAdvance), FSub(rc_x_lookahead[1], rc_x[1]))

====
